---- MODULE Spec2Model ----
(***************************************************************************)
(* Scoring and progression-readiness engine of the N2S TMMi tracker        *)
(* (src/src/utils/scoring.py).  Every engine function is an operator of    *)
(* the same name; an action Call_<function> applies it to the catalogue    *)
(* and the answer list held in the state and records what it returned.     *)
(* `db` is the SQLite database of src/src/models/database.py: the rows of  *)
(* its assessments and assessment_answers tables.                          *)
(*                                                                         *)
(* Scores and percentages are exact fixed-point numbers: the integer x     *)
(* stands for x / Scale, and Scale is a multiple of every denominator the  *)
(* engine can produce for a catalogue of at most MaxQuestions questions.   *)
(* The binary rounding of Python floats is not modelled.                   *)
(***************************************************************************)
EXTENDS Integers, Sequences, FiniteSets, TLC

VARIABLES questions, answers, level_compliance, threshold, result, db

vars == <<questions, answers, level_compliance, threshold, result, db>>

(***************************************************************************)
(* Bounds of the model.                                                    *)
(***************************************************************************)
MaxQuestions == 3

None == "None"

Levels == {2, 3}
ProcessAreas == <<"PA1", "PA2">>
SpecificGoals == <<"SG1", "SG2">>
SpecificPractices == <<"SP1", "SP2">>
AnswerValues == {"Yes", "Partial", "No"}

(***************************************************************************)
(* Fixed-point arithmetic.  A score is a multiple of 1/2; a leaf percentage *)
(* divides by a question count, and each of the three roll-ups (goal,      *)
(* process area, readiness) divides by one more count of at most           *)
(* MaxQuestions: every such quotient is a whole number of 1/Scale.         *)
(***************************************************************************)
RECURSIVE Factorial(_)
Factorial(n) == IF n = 0 THEN 1 ELSE n * Factorial(n - 1)

Scale == 2 * (Factorial(MaxQuestions) ^ 4)

\* The number k (a percentage, a score) in fixed point.
Num(k) == k * Scale

RECURSIVE Sum(_, _)
Sum(f, S) ==
    IF S = {} THEN 0
    ELSE f[CHOOSE j \in S : TRUE] + Sum(f, S \ {CHOOSE j \in S : TRUE})

\* min(f[i] for i in S), S not empty.
MinOf(f, S) == f[CHOOSE i \in S : \A j \in S : f[i] <= f[j]]

\* The number of tenths nearest to x, a tie going to the even one.
Tenths(x) ==
    LET q == (10 * x) \div Scale
        r == (10 * x) % Scale
    IN  IF 2 * r > Scale THEN q + 1
        ELSE IF 2 * r < Scale THEN q
        ELSE IF q % 2 = 0 THEN q ELSE q + 1

\* f"{x:.1f}"
Fmt1(x) == ToString(Tenths(x) \div 10) \o "." \o ToString(Tenths(x) % 10)

(***************************************************************************)
(* calculate_answer_score: score_map.get(answer, 0.0)                      *)
(***************************************************************************)
\* Mutant: the lookup ignores the case of the answer.
calculate_answer_score_AnyCase(answer) ==
    CASE answer \in {"Yes", "yes"} -> Num(1)
      [] answer = "Partial" -> Num(1) \div 2
      [] answer = "No" -> 0
      [] OTHER -> 0

calculate_answer_score(answer) ==
    CASE answer = "Yes" -> Num(1)
      [] answer = "Partial" -> Num(1) \div 2
      [] answer = "No" -> 0
      [] OTHER -> 0

(***************************************************************************)
(* answer_lookup = {ans.question_id: ans for ans in answers}: the last     *)
(* answer of a question id wins.                                           *)
(***************************************************************************)
\* Mutant: the k-th answer is taken as the answer of the k-th question.
answer_lookup_ByPosition(ans) ==
    [qid \in {"Q" \o ToString(k) : k \in DOMAIN ans} |->
        ans[CHOOSE k \in DOMAIN ans : "Q" \o ToString(k) = qid]]

answer_lookup(ans) ==
    [qid \in {ans[i].question_id : i \in DOMAIN ans} |->
        ans[CHOOSE i \in DOMAIN ans :
                /\ ans[i].question_id = qid
                /\ \A j \in DOMAIN ans : ans[j].question_id = qid => j <= i]]

\* The engine's per-question loop body: the score a catalogue question adds.
QuestionScore(q, lookup) ==
    IF q.id \in DOMAIN lookup THEN calculate_answer_score(lookup[q.id].answer)
    ELSE 0

\* Positions of the catalogue questions whose grouping field has the value key.
Positions(qs, field, key) == {i \in DOMAIN qs : qs[i][field] = key}

ScoreSum(qs, lookup, S) == Sum([i \in DOMAIN qs |-> QuestionScore(qs[i], lookup)], S)

\* The answered questions of S, and those answered with a value of V.
Answered(qs, lookup, S) == {i \in S : qs[i].id \in DOMAIN lookup}
CountAnswer(qs, lookup, S, V) ==
    Cardinality({i \in Answered(qs, lookup, S) : lookup[qs[i].id].answer \in V})

\* Mutant: no_count counts the 'No' answers only.
ComplianceRecord_NoOnly(qs, lookup, S) ==
    LET total_score == ScoreSum(qs, lookup, S)
        max_score == Cardinality(S)
    IN  [compliance_percentage |->
            IF max_score > 0 THEN (total_score \div max_score) * 100 ELSE 0,
         total_questions |-> Cardinality(S),
         answered_questions |-> Cardinality(Answered(qs, lookup, S)),
         yes_count |-> CountAnswer(qs, lookup, S, {"Yes"}),
         partial_count |-> CountAnswer(qs, lookup, S, {"Partial"}),
         no_count |-> CountAnswer(qs, lookup, S, {"No"}),
         total_score |-> total_score,
         max_score |-> max_score]

\* Mutant: the percentage is taken over the answered questions only.
ComplianceRecord_OverAnswered(qs, lookup, S) ==
    LET total_score == ScoreSum(qs, lookup, S)
        max_score == Cardinality(Answered(qs, lookup, S))
    IN  [compliance_percentage |->
            IF max_score > 0 THEN (total_score \div max_score) * 100 ELSE 0,
         total_questions |-> Cardinality(S),
         answered_questions |-> Cardinality(Answered(qs, lookup, S)),
         yes_count |-> CountAnswer(qs, lookup, S, {"Yes"}),
         partial_count |-> CountAnswer(qs, lookup, S, {"Partial"}),
         no_count |-> Cardinality(Answered(qs, lookup, S))
                        - CountAnswer(qs, lookup, S, {"Yes", "Partial"}),
         total_score |-> total_score,
         max_score |-> max_score]

\* The record both compliance calculations build for one group of questions.
ComplianceRecord(qs, lookup, S) ==
    LET total_score == ScoreSum(qs, lookup, S)
        max_score == Cardinality(S)
    IN  [compliance_percentage |->
            IF max_score > 0 THEN (total_score \div max_score) * 100 ELSE 0,
         total_questions |-> Cardinality(S),
         answered_questions |-> Cardinality(Answered(qs, lookup, S)),
         yes_count |-> CountAnswer(qs, lookup, S, {"Yes"}),
         partial_count |-> CountAnswer(qs, lookup, S, {"Partial"}),
         no_count |-> Cardinality(Answered(qs, lookup, S))
                        - CountAnswer(qs, lookup, S, {"Yes", "Partial"}),
         total_score |-> total_score,
         max_score |-> max_score]

calculate_level_compliance(qs, ans) ==
    LET lookup == answer_lookup(ans)
    IN  [level \in {qs[i].level : i \in DOMAIN qs} |->
            ComplianceRecord(qs, lookup, Positions(qs, "level", level))]

calculate_process_area_compliance(qs, ans) ==
    LET lookup == answer_lookup(ans)
    IN  [area \in {qs[i].process_area : i \in DOMAIN qs} |->
            ComplianceRecord(qs, lookup, Positions(qs, "process_area", area))]

(***************************************************************************)
(* determine_current_tmmi_level: the loop over [2, 3, 4, 5]; a later level *)
(* that qualifies overwrites an earlier one.                               *)
(***************************************************************************)
level_names == [l \in {2, 3, 4, 5} |->
    CASE l = 2 -> "Managed" [] l = 3 -> "Defined" [] l = 4 -> "Measured" [] OTHER -> "Optimized"]

InitialExplanation == "Level 1 (Initial) - Ad-hoc testing processes"

\* Mutant: the lower levels are not checked.
lower_levels_compliant_Unchecked(lc, t, level) == TRUE

\* Mutant: only the level just below is checked.
lower_levels_compliant_PreviousOnly(lc, t, level) ==
    \A lower_level \in {level - 1} \cap (2 .. 5) :
        lower_level \in DOMAIN lc => ~(lc[lower_level].compliance_percentage < t)

\* Mutant: range(3, level) instead of range(2, level).
lower_levels_compliant_FromLevel3(lc, t, level) ==
    \A lower_level \in 3 .. (level - 1) :
        lower_level \in DOMAIN lc => ~(lc[lower_level].compliance_percentage < t)

lower_levels_compliant(lc, t, level) ==
    \A lower_level \in 2 .. (level - 1) :
        lower_level \in DOMAIN lc => ~(lc[lower_level].compliance_percentage < t)

RECURSIVE LevelLoop(_, _, _, _)
LevelLoop(lc, t, level, acc) ==
    IF level > 5 THEN acc
    ELSE LevelLoop(lc, t, level + 1,
            IF /\ level \in DOMAIN lc
               /\ lc[level].compliance_percentage >= t
               /\ lower_levels_compliant(lc, t, level)
            THEN [current_level |-> level,
                  explanation |-> "Level " \o ToString(level) \o " (" \o level_names[level]
                                  \o ") - " \o Fmt1(lc[level].compliance_percentage)
                                  \o "% compliance"]
            ELSE acc)

determine_current_tmmi_level(lc, t) ==
    LevelLoop(lc, t, 2, [current_level |-> 1, explanation |-> InitialExplanation])

DefaultThreshold == Num(80)

(***************************************************************************)
(* calculate_tmmi_band                                                     *)
(***************************************************************************)
\* Mutant: the lower bounds of the bands are exclusive.
calculate_tmmi_band_Exclusive(percentage) ==
    IF percentage > Num(85) THEN "F"
    ELSE IF percentage > Num(50) THEN "L"
    ELSE IF percentage > Num(15) THEN "P"
    ELSE "N"

calculate_tmmi_band(percentage) ==
    IF percentage >= Num(85) THEN "F"
    ELSE IF percentage >= Num(50) THEN "L"
    ELSE IF percentage >= Num(15) THEN "P"
    ELSE "N"

(***************************************************************************)
(* Helpers for the dictionaries the engine builds while it walks the       *)
(* catalogue in order.                                                     *)
(***************************************************************************)
\* The values of a sequence in order of first appearance (dict key order).
RECURSIVE Distinct(_)
Distinct(s) ==
    IF s = <<>> THEN <<>>
    ELSE IF \E i \in 1 .. (Len(s) - 1) : s[i] = s[Len(s)]
         THEN Distinct(SubSeq(s, 1, Len(s) - 1))
         ELSE Append(Distinct(SubSeq(s, 1, Len(s) - 1)), s[Len(s)])

\* The field of the catalogue questions at the positions S, in catalogue order.
RECURSIVE Collect(_, _, _, _)
Collect(qs, S, field, i) ==
    IF i > Len(qs) THEN <<>>
    ELSE (IF i \in S THEN <<qs[i][field]>> ELSE <<>>) \o Collect(qs, S, field, i + 1)

Range(s) == {s[i] : i \in DOMAIN s}

\* answer.evidence_url and answer.evidence_url.strip()
strip(url) == IF url = " " THEN "" ELSE url

\* Mutant: the URL is not trimmed.
HasEvidence_Untrimmed(a) == a.evidence_url # None /\ a.evidence_url # ""

HasEvidence(a) == a.evidence_url # None /\ a.evidence_url # "" /\ strip(a.evidence_url) # ""

(***************************************************************************)
(* calculate_specific_practice_attainment                                  *)
(***************************************************************************)
calculate_specific_practice_attainment(qs, ans) ==
    LET lookup == answer_lookup(ans)
    IN  [sp_id \in {qs[i].specific_practice : i \in DOMAIN qs} \ {None} |->
            LET S == Positions(qs, "specific_practice", sp_id)
                total_score == ScoreSum(qs, lookup, S)
                question_count == Cardinality(S)
                evidence_count == Cardinality({i \in S :
                    qs[i].id \in DOMAIN lookup /\ HasEvidence(lookup[qs[i].id])})
                attainment_pct == (total_score \div question_count) * 100
            IN  [questions |-> Collect(qs, S, "id", 1),
                 total_score |-> total_score,
                 question_count |-> question_count,
                 evidence_count |-> evidence_count,
                 attainment_percentage |-> attainment_pct,
                 band |-> calculate_tmmi_band(attainment_pct),
                 evidence_coverage |-> (Num(evidence_count) \div question_count) * 100]]

(***************************************************************************)
(* calculate_specific_goal_attainment: every question of the goal whose    *)
(* practice is in sp_attainment adds that practice's percentage once more. *)
(***************************************************************************)
\* Mutant: the band is taken of the sum of the practice percentages.
SpecificGoalAttainment_BandOfTotal(qs, sp_attainment) ==
        [sg_id \in {qs[i].specific_goal : i \in DOMAIN qs} \ {None} |->
            LET S == {i \in Positions(qs, "specific_goal", sg_id) :
                        qs[i].specific_practice \in DOMAIN sp_attainment}
                total_attainment == Sum([i \in DOMAIN qs |->
                    IF i \in S THEN sp_attainment[qs[i].specific_practice].attainment_percentage
                    ELSE 0], S)
                sp_count == Cardinality(S)
                pct == IF sp_count > 0 THEN total_attainment \div sp_count ELSE 0
            IN  [specific_practices |-> Collect(qs, S, "specific_practice", 1),
                 total_attainment |-> total_attainment,
                 sp_count |-> sp_count,
                 attainment_percentage |-> pct,
                 band |-> IF sp_count > 0 THEN calculate_tmmi_band(total_attainment)
                          ELSE "N"]]

\* The goal dictionary, from the practice dictionary the function has computed.
SpecificGoalAttainment(qs, sp_attainment) ==
        [sg_id \in {qs[i].specific_goal : i \in DOMAIN qs} \ {None} |->
            LET S == {i \in Positions(qs, "specific_goal", sg_id) :
                        qs[i].specific_practice \in DOMAIN sp_attainment}
                total_attainment == Sum([i \in DOMAIN qs |->
                    IF i \in S THEN sp_attainment[qs[i].specific_practice].attainment_percentage
                    ELSE 0], S)
                sp_count == Cardinality(S)
                pct == IF sp_count > 0 THEN total_attainment \div sp_count ELSE 0
            IN  [specific_practices |-> Collect(qs, S, "specific_practice", 1),
                 total_attainment |-> total_attainment,
                 sp_count |-> sp_count,
                 attainment_percentage |-> pct,
                 band |-> IF sp_count > 0 THEN calculate_tmmi_band(pct) ELSE "N"]]

calculate_specific_goal_attainment(qs, ans) ==
    SpecificGoalAttainment(qs, calculate_specific_practice_attainment(qs, ans))

(***************************************************************************)
(* calculate_process_area_attainment_enhanced: each goal of the process    *)
(* area is added once; "level" is the level of the area's first question.  *)
(***************************************************************************)
FirstPosition(qs, S) == CHOOSE i \in S : \A j \in S : i <= j

\* Mutant: a goal is appended once for each of its questions.
GoalsOfArea_Repeated(qs, S) == Collect(qs, S, "specific_goal", 1)

\* pa_attainment[pa_name]["specific_goals"]: a goal is appended only if it
\* is not in the list yet.
GoalsOfArea(qs, S) == Distinct(Collect(qs, S, "specific_goal", 1))

\* The process-area dictionary, from the goal dictionary the function has
\* computed.
ProcessAreaAttainment(qs, sg_attainment) ==
        [pa_name \in {qs[i].process_area : i \in DOMAIN qs} \ {None} |->
            LET P == Positions(qs, "process_area", pa_name)
                S == {i \in P : qs[i].specific_goal \in DOMAIN sg_attainment}
                specific_goals == GoalsOfArea(qs, S)
                total_attainment == Sum([k \in DOMAIN specific_goals |->
                    sg_attainment[specific_goals[k]].attainment_percentage],
                    DOMAIN specific_goals)
                sg_count == Len(specific_goals)
                pct == IF sg_count > 0 THEN total_attainment \div sg_count ELSE 0
            IN  [specific_goals |-> specific_goals,
                 total_attainment |-> total_attainment,
                 sg_count |-> sg_count,
                 level |-> qs[FirstPosition(qs, P)].level,
                 attainment_percentage |-> pct,
                 band |-> IF sg_count > 0 THEN calculate_tmmi_band(pct) ELSE "N"]]

calculate_process_area_attainment_enhanced(qs, ans) ==
    ProcessAreaAttainment(qs, calculate_specific_goal_attainment(qs, ans))

\* Key order of the pa_attainment dictionary: first appearance in the catalogue.
pa_order(qs) ==
    Distinct(Collect(qs, {i \in DOMAIN qs : qs[i].process_area # None}, "process_area", 1))

(***************************************************************************)
(* calculate_next_level_readiness                                          *)
(***************************************************************************)
\* Mutant: the loop has no break, the last process area below 50% is named.
RECURSIVE FirstBelow_NoBreak(_, _, _)
FirstBelow_NoBreak(order, data, i) ==
    IF i > Len(order) THEN None
    ELSE IF FirstBelow_NoBreak(order, data, i + 1) # None
         THEN FirstBelow_NoBreak(order, data, i + 1)
         ELSE IF order[i] \in DOMAIN data
                 /\ data[order[i]].attainment_percentage < Num(50)
              THEN order[i]
              ELSE None

\* The first process area of target_pa_data, in dictionary order, below 50%.
RECURSIVE FirstBelow(_, _, _)
FirstBelow(order, data, i) ==
    IF i > Len(order) THEN None
    ELSE IF order[i] \in DOMAIN data /\ data[order[i]].attainment_percentage < Num(50)
         THEN order[i]
         ELSE FirstBelow(order, data, i + 1)

\* Mutant: the sum of the percentages is not divided by target_pa_count.
TargetLevelReadiness_Sum(target_pa_data) ==
    Sum([pa \in DOMAIN target_pa_data |->
            target_pa_data[pa].attainment_percentage], DOMAIN target_pa_data)

\* Filter for target level PAs: the mean of their percentages, 0.0 if none.
TargetLevelReadiness(target_pa_data) ==
    LET target_pa_count == Cardinality(DOMAIN target_pa_data)
        total == Sum([pa \in DOMAIN target_pa_data |->
                        target_pa_data[pa].attainment_percentage], DOMAIN target_pa_data)
    IN  IF target_pa_count > 0 THEN total \div target_pa_count ELSE total

\* Mutant: the readiness is not clamped when the gate is closed.
ConservativeReadiness_Unclamped(gating_status, target_pa_data, target_level_readiness) ==
    target_level_readiness

\* Conservative readiness calculation.
ConservativeReadiness(gating_status, target_pa_data, target_level_readiness) ==
    IF gating_status = "Not Eligible"
    THEN MinOf([pa \in DOMAIN target_pa_data |->
                    target_pa_data[pa].attainment_percentage],
               DOMAIN target_pa_data) + Num(5)
    ELSE target_level_readiness

\* target_level = min(current_level + 1, 5)
TargetLevel(current_level) == IF current_level + 1 < 5 THEN current_level + 1 ELSE 5

\* target_pa_data: the entries of pa_attainment whose "level" is the target level.
TargetPaData(pa_attainment, target_level) ==
    [pa \in {p \in DOMAIN pa_attainment : pa_attainment[p].level = target_level} |->
        pa_attainment[pa]]

\* Gating logic: status and reason for the first offending process area, if any.
GatingStatus(offender) == IF offender # None THEN "Not Eligible" ELSE "Eligible"

GatingReason(offender, target_pa_data) ==
    IF offender # None
    THEN "Process Area '" \o offender \o "' below 50% (currently "
         \o Fmt1(target_pa_data[offender].attainment_percentage) \o "%)"
    ELSE ""

\* The record returned, from the values the function has computed.
ReadinessRecord(current_level, pa_attainment, target_pa_data, offender) ==
    [current_level |-> current_level,
     target_level |-> TargetLevel(current_level),
     target_level_readiness |-> TargetLevelReadiness(target_pa_data),
     conservative_readiness |->
        ConservativeReadiness(GatingStatus(offender), target_pa_data,
                              TargetLevelReadiness(target_pa_data)),
     gating_status |-> GatingStatus(offender),
     gating_reason |-> GatingReason(offender, target_pa_data),
     target_process_areas |-> target_pa_data,
     target_pa_count |-> Cardinality(DOMAIN target_pa_data),
     overall_pa_attainment |-> pa_attainment]

ReadinessOfLevel(qs, current_level, pa_attainment) ==
    ReadinessRecord(current_level, pa_attainment,
        TargetPaData(pa_attainment, TargetLevel(current_level)),
        FirstBelow(pa_order(qs), TargetPaData(pa_attainment, TargetLevel(current_level)), 1))

calculate_next_level_readiness(qs, ans) ==
    ReadinessOfLevel(qs,
        determine_current_tmmi_level(calculate_level_compliance(qs, ans),
                                     DefaultThreshold).current_level,
        calculate_process_area_attainment_enhanced(qs, ans))

(***************************************************************************)
(* list.sort(key=...) as the gap extractors use it: the keys are tuples of *)
(* numbers compared lexicographically, and the sort is stable.             *)
(***************************************************************************)
importance_order(importance) ==
    CASE importance = "High" -> 0
      [] importance = "Medium" -> 1
      [] importance = "Low" -> 2
      [] OTHER -> 3

\* a < b for two tuples of the same length.
RECURSIVE TupleLess(_, _)
TupleLess(a, b) ==
    IF a = <<>> THEN FALSE
    ELSE IF a[1] # b[1] THEN a[1] < b[1]
    ELSE TupleLess(Tail(a), Tail(b))

\* Where the n-th element goes among the first n - 1, already sorted: behind
\* every element whose key is not greater than its own.
InsertAt(sorted, keys, n) ==
    Cardinality({k \in DOMAIN sorted : ~TupleLess(keys[n], keys[sorted[k]])})

\* The positions 1 .. n of the list in sorted order.
RECURSIVE SortedPositions(_, _)
SortedPositions(keys, n) ==
    IF n = 0 THEN <<>>
    ELSE LET sorted == SortedPositions(keys, n - 1)
             at == InsertAt(sorted, keys, n)
         IN  SubSeq(sorted, 1, at) \o <<n>> \o SubSeq(sorted, at + 1, n - 1)

\* Mutant: the list is left in catalogue order.
sort_Unsorted(gaps, keys) == gaps

sort(gaps, keys) ==
    LET positions == SortedPositions(keys, Len(keys))
    IN  [k \in DOMAIN gaps |-> gaps[positions[k]]]

(***************************************************************************)
(* get_gap_analysis                                                        *)
(***************************************************************************)
BasicGap(question, current_answer, evidence_url, comment) ==
    [question_id |-> question.id,
     level |-> question.level,
     process_area |-> question.process_area,
     question |-> question.question,
     current_answer |-> current_answer,
     importance |-> question.importance,
     recommended_activity |-> question.recommended_activity,
     reference_url |-> question.reference_url,
     evidence_url |-> evidence_url,
     comment |-> comment]

\* Mutant: a question without an answer adds no gap.
BasicGapOf_AnsweredOnly(question, lookup) ==
    IF question.id \in DOMAIN lookup
    THEN IF lookup[question.id].answer \in {"No", "Partial"}
         THEN <<BasicGap(question, lookup[question.id].answer,
                         lookup[question.id].evidence_url, lookup[question.id].comment)>>
         ELSE <<>>
    ELSE <<>>

\* The loop body: the gaps one catalogue question appends.
BasicGapOf(question, lookup) ==
    IF question.id \in DOMAIN lookup
    THEN IF lookup[question.id].answer \in {"No", "Partial"}
         THEN <<BasicGap(question, lookup[question.id].answer,
                         lookup[question.id].evidence_url, lookup[question.id].comment)>>
         ELSE <<>>
    ELSE <<BasicGap(question, "Not Answered", None, None)>>

RECURSIVE BasicGaps(_, _, _)
BasicGaps(qs, lookup, i) ==
    IF i > Len(qs) THEN <<>>
    ELSE BasicGapOf(qs[i], lookup) \o BasicGaps(qs, lookup, i + 1)

BasicKeys(gaps) ==
    [k \in DOMAIN gaps |-> <<importance_order(gaps[k].importance), gaps[k].level>>]

get_gap_analysis(qs, ans) ==
    LET gaps == BasicGaps(qs, answer_lookup(ans), 1)
    IN  sort(gaps, BasicKeys(gaps))

(***************************************************************************)
(* extract_gap_analysis_enhanced and _generate_action_recommendation.  A   *)
(* Python dict is a function; {} is the function of empty domain.          *)
(***************************************************************************)
\* d.get(key, default)
get(d, key, default) == IF key \in DOMAIN d THEN d[key] ELSE default

\* The truth value of an Optional[str].
Truthy(x) == x # None /\ x # ""

\* Mutant: a practice at exactly 50% still counts as weak.
_generate_action_recommendation_Strict(question, answer, sp_data, sg_data) ==
    IF answer.answer = "Not Answered"
    THEN "Complete assessment for " \o question.process_area \o " - " \o question.question
    ELSE IF answer.answer = "No"
    THEN IF question.importance = "High"
         THEN "Implement " \o question.recommended_activity
              \o " - Critical for level " \o ToString(question.level)
         ELSE "Establish " \o question.recommended_activity
    ELSE IF answer.answer = "Partial"
    THEN IF get(sp_data, "attainment_percentage", 0) <= Num(50)
         THEN "Strengthen implementation of " \o question.recommended_activity
         ELSE "Complete implementation of " \o question.recommended_activity
    ELSE "Review and validate current implementation"

_generate_action_recommendation(question, answer, sp_data, sg_data) ==
    IF answer.answer = "Not Answered"
    THEN "Complete assessment for " \o question.process_area \o " - " \o question.question
    ELSE IF answer.answer = "No"
    THEN IF question.importance = "High"
         THEN "Implement " \o question.recommended_activity
              \o " - Critical for level " \o ToString(question.level)
         ELSE "Establish " \o question.recommended_activity
    ELSE IF answer.answer = "Partial"
    THEN IF get(sp_data, "attainment_percentage", 0) < Num(50)
         THEN "Strengthen implementation of " \o question.recommended_activity
         ELSE "Complete implementation of " \o question.recommended_activity
    ELSE "Review and validate current implementation"

\* sp_data and sg_data of a question.
DataOf(attainment, tag) == IF Truthy(tag) THEN get(attainment, tag, <<>>) ELSE <<>>

EnhancedGap(question, answer, sp_data, sg_data) ==
    [question_id |-> question.id,
     level |-> question.level,
     process_area |-> question.process_area,
     specific_goal |-> question.specific_goal,
     specific_practice |-> question.specific_practice,
     question |-> question.question,
     current_answer |-> answer.answer,
     importance |-> question.importance,
     recommended_activity |-> question.recommended_activity,
     reference_url |-> question.reference_url,
     evidence_url |-> answer.evidence_url,
     comment |-> answer.comment,
     sp_attainment |-> get(sp_data, "attainment_percentage", 0),
     sp_band |-> get(sp_data, "band", "N"),
     sg_attainment |-> get(sg_data, "attainment_percentage", 0),
     sg_band |-> get(sg_data, "band", "N"),
     action_to_close |-> _generate_action_recommendation(question, answer, sp_data, sg_data)]

\* Mutant: only the answer decides, the practice's attainment is not looked at.
IsEnhancedGap_AnswerOnly(question, answer, sp_attainment) ==
    answer.answer \in {"No", "Partial"}

\* The condition under which an answered question is a gap.
IsEnhancedGap(question, answer, sp_attainment) ==
    \/ answer.answer \in {"No", "Partial"}
    \/ /\ Truthy(question.specific_practice)
       /\ get(get(sp_attainment, question.specific_practice, <<>>),
              "attainment_percentage", 0) < Num(85)

\* The loop body: the gaps one catalogue question appends (none when the
\* question has no answer).
EnhancedGapOf(question, lookup, sp_attainment, sg_attainment) ==
    IF question.id \in DOMAIN lookup
    THEN IF IsEnhancedGap(question, lookup[question.id], sp_attainment)
         THEN <<EnhancedGap(question, lookup[question.id],
                            DataOf(sp_attainment, question.specific_practice),
                            DataOf(sg_attainment, question.specific_goal))>>
         ELSE <<>>
    ELSE <<>>

RECURSIVE EnhancedGaps(_, _, _, _, _)
EnhancedGaps(qs, lookup, sp_attainment, sg_attainment, i) ==
    IF i > Len(qs) THEN <<>>
    ELSE EnhancedGapOf(qs[i], lookup, sp_attainment, sg_attainment)
         \o EnhancedGaps(qs, lookup, sp_attainment, sg_attainment, i + 1)

EnhancedKeys(gaps) ==
    [k \in DOMAIN gaps |->
        <<importance_order(gaps[k].importance), gaps[k].level, gaps[k].sp_attainment>>]

extract_gap_analysis_enhanced(qs, ans) ==
    LET sp_attainment == calculate_specific_practice_attainment(qs, ans)
        sg_attainment == calculate_specific_goal_attainment(qs, ans)
        gaps == EnhancedGaps(qs, answer_lookup(ans), sp_attainment, sg_attainment, 1)
    IN  sort(gaps, EnhancedKeys(gaps))

(***************************************************************************)
(* calculate_evidence_coverage                                             *)
(***************************************************************************)
calculate_evidence_coverage(ans) ==
    LET total_answers == Len(ans)
        with_evidence == Cardinality({i \in DOMAIN ans : HasEvidence(ans[i])})
    IN  IF total_answers = 0
        THEN [percentage |-> 0, with_evidence |-> 0, total_answers |-> 0]
        ELSE [percentage |-> (Num(with_evidence) \div total_answers) * 100,
              with_evidence |-> with_evidence,
              total_answers |-> total_answers]

(***************************************************************************)
(* calculate_generic_goal_compliance: question_count counts the tagged     *)
(* questions of the level that have an answer, and a level is reported     *)
(* when that count is positive.                                            *)
(***************************************************************************)
gg_by_level(level) ==
    CASE level = 2 -> "GG2 - Managed"
      [] level = 3 -> "GG3 - Defined"
      [] level = 4 -> "GG4 - Quantitatively Managed"
      [] level = 5 -> "GG5 - Optimizing"

\* level_questions = [q for q in questions if q.level == level and q.generic_goal]
level_questions(qs, level) ==
    {i \in DOMAIN qs : qs[i].level = level /\ Truthy(qs[i].generic_goal)}

GenericGoalRecord(qs, lookup, level) ==
    LET S == Answered(qs, lookup, level_questions(qs, level))
        total_score == ScoreSum(qs, lookup, S)
        question_count == Cardinality(S)
        evidence_count == Cardinality({i \in S : HasEvidence(lookup[qs[i].id])})
        attainment_pct == (total_score \div question_count) * 100
    IN  [level |-> level,
         attainment_percentage |-> attainment_pct,
         band |-> calculate_tmmi_band(attainment_pct),
         question_count |-> question_count,
         evidence_count |-> evidence_count,
         evidence_coverage |-> (Num(evidence_count) \div question_count) * 100,
         status |-> IF attainment_pct >= Num(85) THEN "Met" ELSE "Not Met"]

calculate_generic_goal_compliance(qs, ans) ==
    LET lookup == answer_lookup(ans)
        reported == {level \in 2 .. 5 :
                        Answered(qs, lookup, level_questions(qs, level)) # {}}
    IN  [gg_name \in {gg_by_level(level) : level \in reported} |->
            GenericGoalRecord(qs, lookup,
                CHOOSE level \in reported : gg_by_level(level) = gg_name)]

(***************************************************************************)
(* generate_assessment_summary: the component results side by side, and    *)
(* the overall statistics, which are taken over every answer of the        *)
(* assessment.                                                             *)
(***************************************************************************)
\* sum(1 for ans in answers if ans.answer == value)
CountValue(ans, value) == Cardinality({k \in DOMAIN ans : ans[k].answer = value})

\* [gap for gap in gaps if gap["importance"] == importance]
GapsOfImportance(gaps, importance) ==
    SelectSeq(gaps, LAMBDA gap : gap.importance = importance)

\* Mutant: the level is determined at a threshold of 70.
generate_assessment_summary_Threshold70(qs, assessment) ==
    LET level_compliance_ == calculate_level_compliance(qs, assessment.answers)
        level == determine_current_tmmi_level(level_compliance_, Num(70))
        gaps == get_gap_analysis(qs, assessment.answers)
        total_questions == Len(qs)
        overall_score ==
            Sum([k \in DOMAIN assessment.answers |->
                    calculate_answer_score(assessment.answers[k].answer)],
                DOMAIN assessment.answers)
    IN  [assessment_id |-> assessment.id,
         timestamp |-> assessment.timestamp,
         reviewer_name |-> assessment.reviewer_name,
         organization |-> assessment.organization,
         current_level |-> level.current_level,
         level_explanation |-> level.explanation,
         overall_percentage |->
            IF total_questions > 0 THEN (overall_score \div total_questions) * 100 ELSE 0,
         total_questions |-> total_questions,
         answered_questions |-> Len(assessment.answers),
         yes_answers |-> CountValue(assessment.answers, "Yes"),
         partial_answers |-> CountValue(assessment.answers, "Partial"),
         no_answers |-> CountValue(assessment.answers, "No"),
         level_compliance |-> level_compliance_,
         process_area_compliance |->
            calculate_process_area_compliance(qs, assessment.answers),
         gaps |-> gaps,
         evidence_coverage |-> calculate_evidence_coverage(assessment.answers),
         high_priority_gaps |-> GapsOfImportance(gaps, "High"),
         medium_priority_gaps |-> GapsOfImportance(gaps, "Medium"),
         low_priority_gaps |-> GapsOfImportance(gaps, "Low")]

generate_assessment_summary(qs, assessment) ==
    LET level_compliance_ == calculate_level_compliance(qs, assessment.answers)
        level == determine_current_tmmi_level(level_compliance_, DefaultThreshold)
        gaps == get_gap_analysis(qs, assessment.answers)
        total_questions == Len(qs)
        overall_score ==
            Sum([k \in DOMAIN assessment.answers |->
                    calculate_answer_score(assessment.answers[k].answer)],
                DOMAIN assessment.answers)
    IN  [assessment_id |-> assessment.id,
         timestamp |-> assessment.timestamp,
         reviewer_name |-> assessment.reviewer_name,
         organization |-> assessment.organization,
         current_level |-> level.current_level,
         level_explanation |-> level.explanation,
         overall_percentage |->
            IF total_questions > 0 THEN (overall_score \div total_questions) * 100 ELSE 0,
         total_questions |-> total_questions,
         answered_questions |-> Len(assessment.answers),
         yes_answers |-> CountValue(assessment.answers, "Yes"),
         partial_answers |-> CountValue(assessment.answers, "Partial"),
         no_answers |-> CountValue(assessment.answers, "No"),
         level_compliance |-> level_compliance_,
         process_area_compliance |->
            calculate_process_area_compliance(qs, assessment.answers),
         gaps |-> gaps,
         evidence_coverage |-> calculate_evidence_coverage(assessment.answers),
         high_priority_gaps |-> GapsOfImportance(gaps, "High"),
         medium_priority_gaps |-> GapsOfImportance(gaps, "Medium"),
         low_priority_gaps |-> GapsOfImportance(gaps, "Low")]

(***************************************************************************)
(* generate_progression_dashboard_data: the summary of an assessment built *)
(* around the answers, the readiness record, the enhanced gaps, the        *)
(* generic goals and the evidence coverage of each process area.           *)
(***************************************************************************)
\* Assessment.__post_init__ stamps the assessment with the time of the call;
\* the dashboard does not read the stamp.
Now == "now"

\* pa_answers = [a for a in answers if a.question_id in [q.id for q in pa_questions]]
pa_answers(qs, ans, pa_name) ==
    {k \in DOMAIN ans :
        \E i \in Positions(qs, "process_area", pa_name) : qs[i].id = ans[k].question_id}

EvidenceCoverageByPa(qs, ans, pa_attainment) ==
    [pa_name \in {pa \in DOMAIN pa_attainment : pa_answers(qs, ans, pa) # {}} |->
        LET with_evidence ==
                Cardinality({k \in pa_answers(qs, ans, pa_name) : HasEvidence(ans[k])})
            total_answers == Cardinality(pa_answers(qs, ans, pa_name))
        IN  [percentage |-> (Num(with_evidence) \div total_answers) * 100,
             with_evidence |-> with_evidence,
             total_answers |-> total_answers]]

\* evidence_coverage_by_pa.get(pa_name, {}).get("percentage", 0)
CoverageOf(evidence_coverage_by_pa, pa_name) ==
    IF pa_name \in DOMAIN evidence_coverage_by_pa
    THEN evidence_coverage_by_pa[pa_name].percentage
    ELSE 0

\* The dictionary the dashboard returns, from the results it has collected.
DashboardRecord(qs, basic_summary, next_level_readiness, enhanced_gaps, generic_goals, evidence_coverage_by_pa) ==
    [current_level |-> basic_summary.current_level,
     overall_compliance |-> basic_summary.overall_percentage,
     total_questions |-> basic_summary.total_questions,
     answered_questions |-> basic_summary.answered_questions,
     next_level |-> next_level_readiness.target_level,
     next_level_readiness |-> next_level_readiness.target_level_readiness,
     conservative_readiness |-> next_level_readiness.conservative_readiness,
     gating_status |-> next_level_readiness.gating_status,
     gating_reason |-> next_level_readiness.gating_reason,
     process_areas |-> next_level_readiness.overall_pa_attainment,
     target_process_areas |-> next_level_readiness.target_process_areas,
     gaps |-> enhanced_gaps,
     gap_count |-> Len(enhanced_gaps),
     high_priority_gaps |-> GapsOfImportance(enhanced_gaps, "High"),
     generic_goals |-> generic_goals,
     evidence_coverage |-> basic_summary.evidence_coverage,
     evidence_coverage_by_pa |-> evidence_coverage_by_pa,
     high_risk_assertions |->
        SelectSeq(pa_order(qs), LAMBDA pa_name :
            /\ next_level_readiness.overall_pa_attainment[pa_name].band = "F"
            /\ CoverageOf(evidence_coverage_by_pa, pa_name) < Num(50))]

DashboardOf(qs, ans, basic_summary, next_level_readiness) ==
    DashboardRecord(qs, basic_summary, next_level_readiness,
        extract_gap_analysis_enhanced(qs, ans),
        calculate_generic_goal_compliance(qs, ans),
        EvidenceCoverageByPa(qs, ans, next_level_readiness.overall_pa_attainment))

generate_progression_dashboard_data(qs, ans) ==
    DashboardOf(qs, ans,
        generate_assessment_summary(qs, [id |-> None, timestamp |-> Now,
            reviewer_name |-> "", organization |-> "", answers |-> ans]),
        calculate_next_level_readiness(qs, ans))

(***************************************************************************)
(* Inputs.  A catalogue is a list of at most MaxQuestions questions with   *)
(* distinct ids; process areas, goals and practices are named in order of  *)
(* first use (names are opaque to the engine).  The catalogue follows the  *)
(* TMMi hierarchy: a process area is scoped to one level, a specific goal  *)
(* to one process area and a specific practice to one specific goal; a     *)
(* question may lack the goal tag, the practice tag or both.  An           *)
(* assessment answers each catalogue question at most once.                *)
(***************************************************************************)
TMMiQuestion(i, a) ==
    [id |-> "Q" \o ToString(i), level |-> a.level, process_area |-> a.process_area,
     question |-> "question " \o ToString(i),
     importance |-> "High",
     recommended_activity |-> "activity " \o ToString(i),
     reference_url |-> "ref " \o ToString(i),
     specific_goal |-> a.specific_goal,
     specific_practice |-> a.specific_practice, generic_goal |-> None]

AssessmentAnswer(qid, value) ==
    [question_id |-> qid, answer |-> value, evidence_url |-> None, comment |-> None]

QuestionAttributes ==
    [level : Levels, process_area : Range(ProcessAreas),
     specific_goal : Range(SpecificGoals) \cup {None},
     specific_practice : Range(SpecificPractices) \cup {None}]

Index(names, x) == CHOOSE k \in DOMAIN names : names[k] = x

\* Names are used in the order of the list `names`: a name is preceded by
\* every name before it in the list.
InOrderOfFirstUse(used, names) ==
    \A i \in DOMAIN used :
        used[i] # None =>
            \A k \in 1 .. (Index(names, used[i]) - 1) :
                \E j \in 1 .. (i - 1) : used[j] = names[k]

\* Questions that share a tag agree on what the tag is scoped to.
ScopedTo(b, tag, scope) ==
    \A i, j \in DOMAIN b :
        (b[i][tag] = b[j][tag] /\ b[i][tag] # None) => b[i][scope] = b[j][scope]

Hierarchical(b) ==
    /\ ScopedTo(b, "process_area", "level")
    /\ ScopedTo(b, "specific_goal", "process_area")
    /\ ScopedTo(b, "specific_practice", "specific_goal")

\* The attributes b of the questions of a catalogue the model starts from.
WellFormed(b) ==
    /\ Hierarchical(b)
    /\ InOrderOfFirstUse([i \in DOMAIN b |-> b[i].process_area], ProcessAreas)
    /\ InOrderOfFirstUse([i \in DOMAIN b |-> b[i].specific_goal], SpecificGoals)
    /\ InOrderOfFirstUse([i \in DOMAIN b |-> b[i].specific_practice], SpecificPractices)

RECURSIVE AnswersOf(_, _, _)
AnswersOf(qs, given, i) ==
    IF i > Len(qs) THEN <<>>
    ELSE (IF given[i] = None THEN <<>> ELSE <<AssessmentAnswer(qs[i].id, given[i])>>)
         \o AnswersOf(qs, given, i + 1)

\* A behaviour is one invocation of the engine on one (questions, answers)
\* snapshot: `result` is empty until the call returns.
NoResult == [fn |-> "", value |-> <<>>]

\* The database after init_database: the tables exist and hold no row.
EmptyDb == [assessments |-> <<>>, assessment_answers |-> <<>>]

Init ==
    /\ \E n \in 0 .. MaxQuestions :
        \E b \in [1 .. n -> QuestionAttributes] :
            /\ WellFormed(b)
            /\ questions = [i \in 1 .. n |-> TMMiQuestion(i, b[i])]
            /\ \E given \in [1 .. n -> AnswerValues \cup {None}] :
                answers = AnswersOf(questions, given, 1)
    /\ level_compliance = <<>>
    /\ threshold = DefaultThreshold
    /\ result = NoResult
    /\ db = EmptyDb

Call_calculate_level_compliance ==
    /\ result.fn = ""
    /\ result' = [fn |-> "calculate_level_compliance",
                  value |-> calculate_level_compliance(questions, answers)]
    /\ UNCHANGED <<questions, answers, level_compliance, threshold, db>>

Call_calculate_process_area_compliance ==
    /\ result.fn = ""
    /\ result' = [fn |-> "calculate_process_area_compliance",
                  value |-> calculate_process_area_compliance(questions, answers)]
    /\ UNCHANGED <<questions, answers, level_compliance, threshold, db>>

Call_calculate_specific_practice_attainment ==
    /\ result.fn = ""
    /\ result' = [fn |-> "calculate_specific_practice_attainment",
                  value |-> calculate_specific_practice_attainment(questions, answers)]
    /\ UNCHANGED <<questions, answers, level_compliance, threshold, db>>

Call_calculate_specific_goal_attainment ==
    /\ result.fn = ""
    /\ result' = [fn |-> "calculate_specific_goal_attainment",
                  value |-> calculate_specific_goal_attainment(questions, answers)]
    /\ UNCHANGED <<questions, answers, level_compliance, threshold, db>>

Call_calculate_process_area_attainment_enhanced ==
    /\ result.fn = ""
    /\ result' = [fn |-> "calculate_process_area_attainment_enhanced",
                  value |-> calculate_process_area_attainment_enhanced(questions, answers)]
    /\ UNCHANGED <<questions, answers, level_compliance, threshold, db>>

Call_calculate_next_level_readiness ==
    /\ result.fn = ""
    /\ result' = [fn |-> "calculate_next_level_readiness",
                  value |-> calculate_next_level_readiness(questions, answers)]
    /\ UNCHANGED <<questions, answers, level_compliance, threshold, db>>

Next ==
    \/ Call_calculate_level_compliance
    \/ Call_calculate_process_area_compliance
    \/ Call_calculate_specific_practice_attainment
    \/ Call_calculate_specific_goal_attainment
    \/ Call_calculate_process_area_attainment_enhanced
    \/ Call_calculate_next_level_readiness

Spec == Init /\ [][Next]_vars

(***************************************************************************)
(* The level determiner on its own: any map from some of the levels 2..5   *)
(* to a compliance percentage, and any threshold.                          *)
(***************************************************************************)
LevelPercentages == {Num(0), Num(50), Num(159) \div 2, Num(80), Num(100)}
Thresholds == {Num(50), Num(80)}

LevelMaps ==
    UNION {[D -> [compliance_percentage : LevelPercentages]] : D \in SUBSET {2, 3, 4, 5}}

InitLevel ==
    /\ questions = <<>>
    /\ answers = <<>>
    /\ level_compliance \in LevelMaps
    /\ threshold \in Thresholds
    /\ result = NoResult
    /\ db = EmptyDb

Call_determine_current_tmmi_level ==
    /\ result.fn = ""
    /\ result' = [fn |-> "determine_current_tmmi_level",
                  value |-> determine_current_tmmi_level(level_compliance, threshold)]
    /\ UNCHANGED <<questions, answers, level_compliance, threshold, db>>

NextLevel == Call_determine_current_tmmi_level

SpecLevel == InitLevel /\ [][NextLevel]_vars

(***************************************************************************)
(* The readiness analyser on catalogues whose process areas may have       *)
(* questions at more than one level (no specific goals or practices).      *)
(***************************************************************************)
UntaggedAttributes ==
    [level : Levels, process_area : Range(ProcessAreas),
     specific_goal : {None}, specific_practice : {None}]

InitCatalogue ==
    /\ \E n \in 0 .. MaxQuestions :
        \E b \in [1 .. n -> UntaggedAttributes] :
            /\ questions = [i \in 1 .. n |-> TMMiQuestion(i, b[i])]
            /\ \E given \in [1 .. n -> AnswerValues \cup {None}] :
                answers = AnswersOf(questions, given, 1)
    /\ level_compliance = <<>>
    /\ threshold = DefaultThreshold
    /\ result = NoResult
    /\ db = EmptyDb

NextCatalogue == Call_calculate_next_level_readiness

SpecCatalogue == InitCatalogue /\ [][NextCatalogue]_vars

(***************************************************************************)
(* The gap extractors: questions of any priority (one that is not in the   *)
(* priority table included), with or without a specific practice.          *)
(***************************************************************************)
Importances == {"High", "Medium", "Low", "Critical"}

GapAttributes ==
    [level : Levels, process_area : {"PA1"}, importance : Importances,
     specific_goal : {None, "SG1"}, specific_practice : {None, "SP1"}]

\* A question of the gap catalogues: the practice SP1 belongs to the goal SG1.
GapQuestion(i, a) == [TMMiQuestion(i, a) EXCEPT !.importance = a.importance]

InitGap ==
    /\ \E n \in 0 .. MaxQuestions :
        \E b \in [1 .. n -> GapAttributes] :
            /\ \A i \in 1 .. n : b[i].specific_goal = None <=> b[i].specific_practice = None
            /\ questions = [i \in 1 .. n |-> GapQuestion(i, b[i])]
            /\ \E given \in [1 .. n -> AnswerValues \cup {None}] :
                answers = AnswersOf(questions, given, 1)
    /\ level_compliance = <<>>
    /\ threshold = DefaultThreshold
    /\ result = NoResult
    /\ db = EmptyDb

\* Mutant: the function takes the answers off the caller's list as it reads
\* them.
Call_get_gap_analysis_Draining ==
    /\ result.fn = ""
    /\ result' = [fn |-> "get_gap_analysis",
                  value |-> get_gap_analysis(questions, answers)]
    /\ answers' = <<>>
    /\ UNCHANGED <<questions, level_compliance, threshold, db>>

Call_get_gap_analysis ==
    /\ result.fn = ""
    /\ result' = [fn |-> "get_gap_analysis",
                  value |-> get_gap_analysis(questions, answers)]
    /\ UNCHANGED <<questions, answers, level_compliance, threshold, db>>

Call_extract_gap_analysis_enhanced ==
    /\ result.fn = ""
    /\ result' = [fn |-> "extract_gap_analysis_enhanced",
                  value |-> extract_gap_analysis_enhanced(questions, answers)]
    /\ UNCHANGED <<questions, answers, level_compliance, threshold, db>>

NextGap ==
    \/ Call_get_gap_analysis
    \/ Call_extract_gap_analysis_enhanced

SpecGap == InitGap /\ [][NextGap]_vars

(***************************************************************************)
(* The action text on its own: one question, one answer of any value, and  *)
(* any practice data ({} for a question without a practice).               *)
(***************************************************************************)
ActionAnswers == AnswerValues \cup {"Not Answered", "Maybe"}

PracticeData ==
    {<<>>} \cup {[attainment_percentage |-> p] : p \in {0, Num(50) - 1, Num(50), Num(100)}}

InitAction ==
    /\ \E a \in GapAttributes :
        /\ a.specific_goal = None <=> a.specific_practice = None
        /\ questions = <<GapQuestion(1, a)>>
    /\ \E v \in ActionAnswers : answers = <<AssessmentAnswer("Q1", v)>>
    /\ level_compliance = <<>>
    /\ threshold = DefaultThreshold
    /\ result = NoResult
    /\ db = EmptyDb

Call__generate_action_recommendation ==
    /\ result.fn = ""
    /\ \E sp_data \in PracticeData :
        result' = [fn |-> "_generate_action_recommendation",
                   args |-> [sp_data |-> sp_data],
                   value |-> _generate_action_recommendation(questions[1], answers[1],
                                                             sp_data, <<>>)]
    /\ UNCHANGED <<questions, answers, level_compliance, threshold, db>>

NextAction == Call__generate_action_recommendation

SpecAction == InitAction /\ [][NextAction]_vars

(***************************************************************************)
(* Evidence coverage and the answer score on answer lists of any content:  *)
(* answer values outside 'Yes'/'Partial'/'No', and evidence URLs that are  *)
(* absent, empty, blank or present.                                        *)
(***************************************************************************)
ScoredValues == AnswerValues \cup {"yes", "Maybe"}
EvidenceUrls == {None, "", " ", "http://evidence"}

AnswerRecords ==
    {[AssessmentAnswer("Q1", v) EXCEPT !.evidence_url = url] :
        v \in ScoredValues, url \in EvidenceUrls}

InitEvidence ==
    /\ questions = <<>>
    /\ \E n \in 0 .. MaxQuestions : answers \in [1 .. n -> AnswerRecords]
    /\ level_compliance = <<>>
    /\ threshold = DefaultThreshold
    /\ result = NoResult
    /\ db = EmptyDb

Call_calculate_evidence_coverage ==
    /\ result.fn = ""
    /\ result' = [fn |-> "calculate_evidence_coverage",
                  value |-> calculate_evidence_coverage(answers)]
    /\ UNCHANGED <<questions, answers, level_compliance, threshold, db>>

\* The score of one of the answers.
Call_calculate_answer_score ==
    /\ result.fn = ""
    /\ \E i \in DOMAIN answers :
        result' = [fn |-> "calculate_answer_score",
                   args |-> [answer |-> answers[i].answer],
                   value |-> calculate_answer_score(answers[i].answer)]
    /\ UNCHANGED <<questions, answers, level_compliance, threshold, db>>

NextEvidence ==
    \/ Call_calculate_evidence_coverage
    \/ Call_calculate_answer_score

SpecEvidence == InitEvidence /\ [][NextEvidence]_vars

(***************************************************************************)
(* Generic goal compliance: questions with or without a generic-goal tag,  *)
(* answers with or without evidence.                                       *)
(***************************************************************************)
GenericGoalAttributes == [level : Levels, generic_goal : {None, "GG 2.1"}]

GenericGoalQuestion(i, a) ==
    [TMMiQuestion(i, [level |-> a.level, process_area |-> "PA1",
                      specific_goal |-> None, specific_practice |-> None])
        EXCEPT !.generic_goal = a.generic_goal]

InitGenericGoal ==
    /\ \E n \in 0 .. MaxQuestions :
        \E b \in [1 .. n -> GenericGoalAttributes] :
            /\ questions = [i \in 1 .. n |-> GenericGoalQuestion(i, b[i])]
            /\ \E given \in [1 .. n -> AnswerValues \cup {None}] :
                \E url \in [DOMAIN AnswersOf(questions, given, 1) -> {None, "http://evidence"}] :
                    answers = [k \in DOMAIN url |->
                        [AnswersOf(questions, given, 1)[k] EXCEPT !.evidence_url = url[k]]]
    /\ level_compliance = <<>>
    /\ threshold = DefaultThreshold
    /\ result = NoResult
    /\ db = EmptyDb

Call_calculate_generic_goal_compliance ==
    /\ result.fn = ""
    /\ result' = [fn |-> "calculate_generic_goal_compliance",
                  value |-> calculate_generic_goal_compliance(questions, answers)]
    /\ UNCHANGED <<questions, answers, level_compliance, threshold, db>>

NextGenericGoal == Call_calculate_generic_goal_compliance

SpecGenericGoal == InitGenericGoal /\ [][NextGenericGoal]_vars

(***************************************************************************)
(* The band of a percentage: whole percentages from below 0 to above 100,  *)
(* and the nearest values on either side of each of them.                  *)
(***************************************************************************)
Percentages == {Num(k) + d : k \in -1 .. 101, d \in {-1, 0, 1}}

InitBand ==
    /\ questions = <<>>
    /\ answers = <<>>
    /\ level_compliance = <<>>
    /\ threshold = DefaultThreshold
    /\ result = NoResult
    /\ db = EmptyDb

Call_calculate_tmmi_band ==
    /\ result.fn = ""
    /\ \E percentage \in Percentages :
        result' = [fn |-> "calculate_tmmi_band",
                   args |-> [percentage |-> percentage],
                   value |-> calculate_tmmi_band(percentage)]
    /\ UNCHANGED <<questions, answers, level_compliance, threshold, db>>

NextBand == Call_calculate_tmmi_band

SpecBand == InitBand /\ [][NextBand]_vars

(***************************************************************************)
(* Answer lists with orphan answers: answers whose question id no          *)
(* catalogue question has, before and after the answers of the catalogue   *)
(* questions.  A question is tagged with the goal, the practice and the    *)
(* generic goal of its level, or with none of them.                        *)
(***************************************************************************)
OrphanAttributes == [level : Levels, tagged : BOOLEAN]

OrphanQuestion(i, a) ==
    [TMMiQuestion(i,
        [level |-> a.level,
         process_area |-> "PA" \o ToString(a.level),
         specific_goal |-> IF a.tagged THEN "SG" \o ToString(a.level) ELSE None,
         specific_practice |-> IF a.tagged THEN "SP" \o ToString(a.level) ELSE None])
        EXCEPT !.generic_goal = IF a.tagged THEN "GG" \o ToString(a.level) ELSE None]

OrphansBefore == {<<>>, <<AssessmentAnswer("Q0", "Yes")>>}
OrphansAfter ==
    {<<>>, <<[AssessmentAnswer("Q0", "No") EXCEPT !.evidence_url = "http://evidence"]>>}

InitOrphan ==
    /\ \E n \in 0 .. MaxQuestions :
        \E b \in [1 .. n -> OrphanAttributes] :
            /\ questions = [i \in 1 .. n |-> OrphanQuestion(i, b[i])]
            /\ \E given \in [1 .. n -> AnswerValues \cup {None}] :
                \E before \in OrphansBefore, after \in OrphansAfter :
                    answers = before \o AnswersOf(questions, given, 1) \o after
    /\ level_compliance = <<>>
    /\ threshold = DefaultThreshold
    /\ result = NoResult
    /\ db = EmptyDb

NextOrphan ==
    \/ Call_calculate_level_compliance
    \/ Call_calculate_process_area_compliance
    \/ Call_calculate_specific_practice_attainment
    \/ Call_calculate_specific_goal_attainment
    \/ Call_calculate_process_area_attainment_enhanced
    \/ Call_get_gap_analysis
    \/ Call_calculate_generic_goal_compliance

SpecOrphan == InitOrphan /\ [][NextOrphan]_vars

(***************************************************************************)
(* Assessments with answer lists of any content: the answers are not tied  *)
(* to the catalogue, so a question id may be answered twice or be unknown  *)
(* to the catalogue ("Q0"), and an answer value may be outside             *)
(* 'Yes'/'Partial'/'No'.  An answer carries evidence when it is 'Yes'.     *)
(***************************************************************************)
Assessment(id, timestamp, reviewer_name, organization, answers_) ==
    [id |-> id, timestamp |-> timestamp, reviewer_name |-> reviewer_name,
     organization |-> organization, answers |-> answers_]

ImportanceOf(i) ==
    CASE i % 3 = 1 -> "High" [] i % 3 = 2 -> "Medium" [] OTHER -> "Low"

SummaryQuestion(i, level) ==
    [TMMiQuestion(i, [level |-> level, process_area |-> "PA" \o ToString(level),
                      specific_goal |-> None, specific_practice |-> None])
        EXCEPT !.importance = ImportanceOf(i)]

SummaryValues == AnswerValues \cup {"Maybe"}

SummaryAnswers(n) ==
    {[AssessmentAnswer("Q" \o ToString(i), v)
        EXCEPT !.evidence_url = IF v = "Yes" THEN "http://evidence" ELSE None] :
        i \in 0 .. n, v \in SummaryValues}

InitSummary ==
    /\ \E n \in 0 .. MaxQuestions :
        /\ \E level \in [1 .. n -> Levels] :
            questions = [i \in 1 .. n |-> SummaryQuestion(i, level[i])]
        /\ \E m \in 0 .. MaxQuestions : answers \in [1 .. m -> SummaryAnswers(n)]
    /\ level_compliance = <<>>
    /\ threshold = DefaultThreshold
    /\ result = NoResult
    /\ db = EmptyDb

Call_generate_assessment_summary ==
    /\ result.fn = ""
    /\ \E assessment \in
            {Assessment(1, "2024-01-01T00:00:00", "reviewer", "organization", answers)} :
        result' = [fn |-> "generate_assessment_summary",
                   args |-> [assessment |-> assessment],
                   value |-> generate_assessment_summary(questions, assessment)]
    /\ UNCHANGED <<questions, answers, level_compliance, threshold, db>>

NextSummary ==
    \/ Call_generate_assessment_summary
    \/ Call_calculate_level_compliance
    \/ Call_calculate_process_area_compliance

SpecSummary == InitSummary /\ [][NextSummary]_vars

(***************************************************************************)
(* The assessment store (src/src/models/database.py).  A row of the        *)
(* assessments table is [id, timestamp, reviewer_name, organization]; a    *)
(* row of assessment_answers is [id, assessment_id, question_id, answer,   *)
(* evidence_url, comment].  Ids are AUTOINCREMENT keys and no row is ever  *)
(* deleted here, so the next id of a table is its number of rows plus one. *)
(***************************************************************************)
MaxAssessments == 2
MaxSavedAnswers == 2

\* ISO timestamps in ascending order, and timestamp.split("T")[0] of each.
Timestamps == <<"2024-01-01T09:00:00", "2024-01-02T09:00:00">>
Dates == <<"2024-01-01", "2024-01-02">>
DateOf(timestamp) == IF timestamp = "" THEN "" ELSE Dates[Index(Timestamps, timestamp)]

\* CHECK (answer IN ('Yes', 'No', 'Partial')) of assessment_answers.
CheckAnswer(answer) == answer.answer \in {"Yes", "No", "Partial"}

\* save_assessment when no constraint fails: one assessments row and one
\* assessment_answers row for each answer, in the order of the list.
InsertAssessment(d, assessment) ==
    LET assessment_id == Len(d.assessments) + 1
    IN  [assessments |->
            Append(d.assessments,
                [id |-> assessment_id, timestamp |-> assessment.timestamp,
                 reviewer_name |-> assessment.reviewer_name,
                 organization |-> assessment.organization]),
         assessment_answers |->
            d.assessment_answers \o
            [k \in DOMAIN assessment.answers |->
                [id |-> Len(d.assessment_answers) + k,
                 assessment_id |-> assessment_id,
                 question_id |-> assessment.answers[k].question_id,
                 answer |-> assessment.answers[k].answer,
                 evidence_url |-> assessment.answers[k].evidence_url,
                 comment |-> assessment.answers[k].comment]]]

\* assessments a LEFT JOIN assessment_answers aa ON a.id = aa.assessment_id,
\* grouped by a.id: the group of an assessment holds its answer rows, or
\* one row whose aa columns are all NULL when it has no answer row.
AnswerRows(d, a) ==
    SelectSeq(d.assessment_answers, LAMBDA aa : aa.assessment_id = a.id)

\* COUNT(*): the rows of the group, the all-NULL row included.
CountStar(d, a) == IF AnswerRows(d, a) = <<>> THEN 1 ELSE Len(AnswerRows(d, a))

\* COUNT(aa.id): the rows of the group whose aa.id is not NULL.
CountId(d, a) == Len(AnswerRows(d, a))

\* total_score / total * 100 if total > 0 else 0, of the counted rows
Compliance(yes, partial, total) ==
    IF total > 0 THEN ((Num(2 * yes + partial) \div 2) \div total) * 100 ELSE 0

\* One entry of get_assessment_history: total_questions is COUNT(*).
HistoryEntry(d, a) ==
    LET rows == AnswerRows(d, a)
        yes == CountValue(rows, "Yes")
        partial == CountValue(rows, "Partial")
        total_questions == CountStar(d, a)
    IN  [timestamp |-> a.timestamp,
         reviewer_name |-> a.reviewer_name,
         organization |-> a.organization,
         yes_count |-> yes,
         partial_count |-> partial,
         no_count |-> CountValue(rows, "No"),
         total_questions |-> total_questions,
         compliance_percentage |-> Compliance(yes, partial, total_questions)]

\* One row of get_assessments_for_editing: the total is COUNT(aa.id), and
\* "Compliance %" is round(compliance, 1), held here in tenths.
EditingRow(d, a) ==
    LET rows == AnswerRows(d, a)
        yes == CountValue(rows, "Yes")
        partial == CountValue(rows, "Partial")
        total == CountId(d, a)
    IN  [x \in {"ID", "Date", "Reviewer", "Organization", "Total Questions",
                "Yes", "Partial", "No", "Compliance %"} |->
            CASE x = "ID" -> a.id
              [] x = "Date" -> DateOf(a.timestamp)
              [] x = "Reviewer" -> a.reviewer_name
              [] x = "Organization" -> a.organization
              [] x = "Total Questions" -> total
              [] x = "Yes" -> yes
              [] x = "Partial" -> partial
              [] x = "No" -> CountValue(rows, "No")
              [] x = "Compliance %" -> Tenths(Compliance(yes, partial, total))]

\* ORDER BY a.timestamp [DESC]: `order` lists the positions of the
\* assessments rows in an order the clause allows; rows of equal timestamp
\* come in either order.
OrderedBy(d, order, descending) ==
    /\ order \in Permutations(DOMAIN d.assessments)
    /\ \A j, k \in DOMAIN order :
        j < k =>
            IF descending
            THEN Index(Timestamps, d.assessments[order[j]].timestamp)
                    >= Index(Timestamps, d.assessments[order[k]].timestamp)
            ELSE Index(Timestamps, d.assessments[order[j]].timestamp)
                    <= Index(Timestamps, d.assessments[order[k]].timestamp)

get_assessment_history(d, order) ==
    [k \in DOMAIN order |-> HistoryEntry(d, d.assessments[order[k]])]

get_assessments_for_editing(d, order) ==
    [k \in DOMAIN order |-> EditingRow(d, d.assessments[order[k]])]

\* The assessments a caller saves: answers of any value.
SavedAnswers ==
    {AssessmentAnswer(qid, v) : qid \in {"q1"}, v \in AnswerValues \cup {"Maybe"}}

Assessments ==
    {Assessment(None, timestamp, "reviewer", "organization", saved) :
        timestamp \in Range(Timestamps),
        saved \in UNION {[1 .. n -> SavedAnswers] : n \in 0 .. MaxSavedAnswers}}

InitDatabase ==
    /\ questions = <<>>
    /\ answers = <<>>
    /\ level_compliance = <<>>
    /\ threshold = DefaultThreshold
    /\ result = NoResult
    /\ db = EmptyDb

\* save_assessment runs in one transaction: a failed CHECK raises
\* sqlite3.IntegrityError and leaves the database as it was.
Call_save_assessment ==
    /\ Len(db.assessments) < MaxAssessments
    /\ \E assessment \in Assessments :
        IF \A k \in DOMAIN assessment.answers : CheckAnswer(assessment.answers[k])
        THEN /\ db' = InsertAssessment(db, assessment)
             /\ result' = [fn |-> "save_assessment",
                           args |-> [assessment |-> assessment],
                           value |-> Len(db.assessments) + 1]
        ELSE /\ db' = db
             /\ result' = [fn |-> "save_assessment",
                           args |-> [assessment |-> assessment],
                           raised |-> "IntegrityError"]
    /\ UNCHANGED <<questions, answers, level_compliance, threshold>>

Call_get_assessment_history ==
    /\ \E order \in Permutations(DOMAIN db.assessments) :
        /\ OrderedBy(db, order, FALSE)
        /\ result' = [fn |-> "get_assessment_history",
                      value |-> get_assessment_history(db, order)]
    /\ UNCHANGED <<questions, answers, level_compliance, threshold, db>>

Call_get_assessments_for_editing ==
    /\ \E order \in Permutations(DOMAIN db.assessments) :
        /\ OrderedBy(db, order, TRUE)
        /\ result' = [fn |-> "get_assessments_for_editing",
                      value |-> get_assessments_for_editing(db, order)]
    /\ UNCHANGED <<questions, answers, level_compliance, threshold, db>>

NextDatabase ==
    \/ Call_save_assessment
    \/ Call_get_assessment_history
    \/ Call_get_assessments_for_editing

SpecDatabase == InitDatabase /\ [][NextDatabase]_vars

(***************************************************************************)
(* Every engine function that takes the catalogue or the answer list, on   *)
(* the inputs with orphan answers, and a caller that calls the function    *)
(* that has just returned once more with the same objects: the second      *)
(* return value is kept next to the first.  The answer lists have at most  *)
(* MaxQuestions answers, so that Scale is a multiple of their lengths.     *)
(***************************************************************************)
InitEngine == InitOrphan /\ Len(answers) <= MaxQuestions

Call_generate_progression_dashboard_data ==
    /\ result.fn = ""
    /\ result' = [fn |-> "generate_progression_dashboard_data",
                  value |-> generate_progression_dashboard_data(questions, answers)]
    /\ UNCHANGED <<questions, answers, level_compliance, threshold, db>>

\* The caller calls the function that has returned once a second time, with
\* the same objects, and keeps what it returns now next to what it returned
\* before.
Again_calculate_level_compliance ==
    /\ result.fn = "calculate_level_compliance"
    /\ "again" \notin DOMAIN result
    /\ result' = [fn |-> result.fn, value |-> result.value,
                  again |-> calculate_level_compliance(questions, answers)]
    /\ UNCHANGED <<questions, answers, level_compliance, threshold, db>>

Again_calculate_process_area_compliance ==
    /\ result.fn = "calculate_process_area_compliance"
    /\ "again" \notin DOMAIN result
    /\ result' = [fn |-> result.fn, value |-> result.value,
                  again |-> calculate_process_area_compliance(questions, answers)]
    /\ UNCHANGED <<questions, answers, level_compliance, threshold, db>>

Again_calculate_specific_practice_attainment ==
    /\ result.fn = "calculate_specific_practice_attainment"
    /\ "again" \notin DOMAIN result
    /\ result' = [fn |-> result.fn, value |-> result.value,
                  again |-> calculate_specific_practice_attainment(questions, answers)]
    /\ UNCHANGED <<questions, answers, level_compliance, threshold, db>>

Again_calculate_specific_goal_attainment ==
    /\ result.fn = "calculate_specific_goal_attainment"
    /\ "again" \notin DOMAIN result
    /\ result' = [fn |-> result.fn, value |-> result.value,
                  again |-> calculate_specific_goal_attainment(questions, answers)]
    /\ UNCHANGED <<questions, answers, level_compliance, threshold, db>>

Again_calculate_process_area_attainment_enhanced ==
    /\ result.fn = "calculate_process_area_attainment_enhanced"
    /\ "again" \notin DOMAIN result
    /\ result' = [fn |-> result.fn, value |-> result.value,
                  again |-> calculate_process_area_attainment_enhanced(questions, answers)]
    /\ UNCHANGED <<questions, answers, level_compliance, threshold, db>>

Again_calculate_next_level_readiness ==
    /\ result.fn = "calculate_next_level_readiness"
    /\ "again" \notin DOMAIN result
    /\ result' = [fn |-> result.fn, value |-> result.value,
                  again |-> calculate_next_level_readiness(questions, answers)]
    /\ UNCHANGED <<questions, answers, level_compliance, threshold, db>>

Again_get_gap_analysis ==
    /\ result.fn = "get_gap_analysis"
    /\ "again" \notin DOMAIN result
    /\ result' = [fn |-> result.fn, value |-> result.value,
                  again |-> get_gap_analysis(questions, answers)]
    /\ UNCHANGED <<questions, answers, level_compliance, threshold, db>>

Again_extract_gap_analysis_enhanced ==
    /\ result.fn = "extract_gap_analysis_enhanced"
    /\ "again" \notin DOMAIN result
    /\ result' = [fn |-> result.fn, value |-> result.value,
                  again |-> extract_gap_analysis_enhanced(questions, answers)]
    /\ UNCHANGED <<questions, answers, level_compliance, threshold, db>>

Again_calculate_generic_goal_compliance ==
    /\ result.fn = "calculate_generic_goal_compliance"
    /\ "again" \notin DOMAIN result
    /\ result' = [fn |-> result.fn, value |-> result.value,
                  again |-> calculate_generic_goal_compliance(questions, answers)]
    /\ UNCHANGED <<questions, answers, level_compliance, threshold, db>>

Again_calculate_evidence_coverage ==
    /\ result.fn = "calculate_evidence_coverage"
    /\ "again" \notin DOMAIN result
    /\ result' = [fn |-> result.fn, value |-> result.value,
                  again |-> calculate_evidence_coverage(answers)]
    /\ UNCHANGED <<questions, answers, level_compliance, threshold, db>>

Again_generate_assessment_summary ==
    /\ result.fn = "generate_assessment_summary"
    /\ "again" \notin DOMAIN result
    /\ result' = [fn |-> result.fn, args |-> result.args, value |-> result.value,
                  again |-> generate_assessment_summary(questions,
                                [result.args.assessment EXCEPT !.answers = answers])]
    /\ UNCHANGED <<questions, answers, level_compliance, threshold, db>>

Again_generate_progression_dashboard_data ==
    /\ result.fn = "generate_progression_dashboard_data"
    /\ "again" \notin DOMAIN result
    /\ result' = [fn |-> result.fn, value |-> result.value,
                  again |-> generate_progression_dashboard_data(questions, answers)]
    /\ UNCHANGED <<questions, answers, level_compliance, threshold, db>>

NextEngine ==
    \/ Call_calculate_level_compliance
    \/ Call_calculate_process_area_compliance
    \/ Call_calculate_specific_practice_attainment
    \/ Call_calculate_specific_goal_attainment
    \/ Call_calculate_process_area_attainment_enhanced
    \/ Call_calculate_next_level_readiness
    \/ Call_get_gap_analysis
    \/ Call_extract_gap_analysis_enhanced
    \/ Call_calculate_generic_goal_compliance
    \/ Call_calculate_evidence_coverage
    \/ Call_generate_assessment_summary
    \/ Call_generate_progression_dashboard_data
    \/ Again_calculate_level_compliance
    \/ Again_calculate_process_area_compliance
    \/ Again_calculate_specific_practice_attainment
    \/ Again_calculate_specific_goal_attainment
    \/ Again_calculate_process_area_attainment_enhanced
    \/ Again_calculate_next_level_readiness
    \/ Again_get_gap_analysis
    \/ Again_extract_gap_analysis_enhanced
    \/ Again_calculate_generic_goal_compliance
    \/ Again_calculate_evidence_coverage
    \/ Again_generate_assessment_summary
    \/ Again_generate_progression_dashboard_data

SpecEngine == InitEngine /\ [][NextEngine]_vars

(***************************************************************************)
(* Vocabulary of the properties: what the inputs say, read off the state   *)
(* without the engine.                                                     *)
(***************************************************************************)
\* Catalogue positions whose question is answered with value v (the last
\* answer of the question id is the one that counts).
AnsweredWith(v) ==
    {i \in DOMAIN questions :
        \E k \in DOMAIN answers :
            /\ answers[k].question_id = questions[i].id
            /\ answers[k].answer = v
            /\ \A m \in DOMAIN answers :
                answers[m].question_id = questions[i].id => m <= k}

Unanswered ==
    {i \in DOMAIN questions :
        \A k \in DOMAIN answers : answers[k].question_id # questions[i].id}

\* pct = 100 * (yes + partial / 2) / n, in integers.
IsLeafPercentage(pct, G) ==
    /\ G # {}
    /\ pct * 2 * Cardinality(G)
         = Num(100) * (2 * Cardinality(G \cap AnsweredWith("Yes"))
                        + Cardinality(G \cap AnsweredWith("Partial")))

\* pct is the arithmetic mean of f over the non-empty set S.
IsMeanOf(pct, f, S) == S # {} /\ pct * Cardinality(S) = Sum(f, S)

IsBandOf(band, pct) ==
    /\ band = "F" <=> pct >= Num(85)
    /\ band = "L" <=> (pct >= Num(50) /\ pct < Num(85))
    /\ band = "P" <=> (pct >= Num(15) /\ pct < Num(50))
    /\ band = "N" <=> pct < Num(15)

Returned(fn) == result.fn = fn

\* C1: every percentage reported by calculate_level_compliance,
\* calculate_process_area_compliance and calculate_specific_practice_attainment
\* equals 100 x (sum of the scores of the group's answered questions) / (number
\* of catalogue questions of the group); an unanswered question counts in the
\* denominator only.
C1_AggregationSoundness ==
    /\ Returned("calculate_level_compliance") =>
        \A g \in DOMAIN result.value :
            IsLeafPercentage(result.value[g].compliance_percentage,
                             {i \in DOMAIN questions : questions[i].level = g})
    /\ Returned("calculate_process_area_compliance") =>
        \A g \in DOMAIN result.value :
            IsLeafPercentage(result.value[g].compliance_percentage,
                             {i \in DOMAIN questions : questions[i].process_area = g})
    /\ Returned("calculate_specific_practice_attainment") =>
        \A g \in DOMAIN result.value :
            IsLeafPercentage(result.value[g].attainment_percentage,
                             {i \in DOMAIN questions : questions[i].specific_practice = g})

\* C1 witness: a level group with a 'Yes', a 'Partial' and an unanswered
\* question is reported at 50%.
C1_Witness ==
    /\ Returned("calculate_level_compliance")
    /\ \E g \in DOMAIN result.value :
        LET G == {i \in DOMAIN questions : questions[i].level = g}
        IN  /\ G \cap Unanswered # {}
            /\ G \cap AnsweredWith("Yes") # {}
            /\ G \cap AnsweredWith("Partial") # {}
            /\ result.value[g].compliance_percentage = Num(50)

(***************************************************************************)
(* Level determiner (SpecLevel).                                           *)
(***************************************************************************)
HasEntry(l) == l \in DOMAIN level_compliance
Meets(l) ==
    /\ HasEntry(l)
    /\ level_compliance[l].compliance_percentage >= threshold
ExactlyAtThreshold(l) ==
    HasEntry(l) /\ level_compliance[l].compliance_percentage = threshold

C3_HighestChainLevel ==
    (Returned("determine_current_tmmi_level") /\ DOMAIN level_compliance = {2, 3, 4, 5}) =>
        LET L == result.value.current_level
        IN  /\ L \in 1 .. 5
            /\ \A l \in 2 .. L : Meets(l)
            /\ L < 5 => ~Meets(L + 1)

\* C3 witness: all four levels present, level 3 below the threshold and the
\* levels 2, 4 and 5 at or above it: the result is capped at 2.
C3_Witness ==
    /\ Returned("determine_current_tmmi_level")
    /\ DOMAIN level_compliance = {2, 3, 4, 5}
    /\ Meets(2) /\ ~Meets(3) /\ Meets(4) /\ Meets(5)
    /\ result.value.current_level = 2

\* C4: when level 2 has an attainment below the threshold the result is
\* level 1 with the 'Level 1 (Initial)' explanation, whatever levels 3..5 hold.
C4_LevelMonotonicity ==
    (Returned("determine_current_tmmi_level") /\ HasEntry(2) /\ ~Meets(2)) =>
        /\ result.value.current_level = 1
        /\ result.value.explanation = "Level 1 (Initial) - Ad-hoc testing processes"

\* C4 witness: level 2 below the threshold, levels 3, 4 and 5 at 100%, and
\* level 1 returned.
C4_Witness ==
    /\ Returned("determine_current_tmmi_level")
    /\ HasEntry(2) /\ ~Meets(2)
    /\ \A l \in 3 .. 5 : HasEntry(l) /\ level_compliance[l].compliance_percentage = Num(100)
    /\ result.value.current_level = 1

(***************************************************************************)
(* Roll-ups (Spec).                                                        *)
(***************************************************************************)
PracticesOfGoal(g) ==
    {questions[i].specific_practice :
        i \in {k \in DOMAIN questions : questions[k].specific_goal = g}} \ {None}

GoalsOfProcessArea(pa) ==
    {questions[i].specific_goal :
        i \in {k \in DOMAIN questions : questions[k].process_area = pa}} \ {None}

PracticePercentages ==
    LET sp == calculate_specific_practice_attainment(questions, answers)
    IN  [p \in DOMAIN sp |-> sp[p].attainment_percentage]

GoalPercentages ==
    LET sg == calculate_specific_goal_attainment(questions, answers)
    IN  [g \in DOMAIN sg |-> sg[g].attainment_percentage]

\* C5 as stated: the percentage of a specific goal is the unweighted mean of
\* the percentages of its distinct specific practices, each counted once.
C5_GoalIsMeanOfDistinctPractices ==
    Returned("calculate_specific_goal_attainment") =>
        \A g \in DOMAIN result.value :
            PracticesOfGoal(g) # {} =>
                IsMeanOf(result.value[g].attainment_percentage,
                         PracticePercentages, PracticesOfGoal(g))

\* C6: the percentage of a process area is the unweighted mean of the
\* percentages of the distinct specific goals its questions reference, each
\* counted once, and its band is the band of that mean.
C6_ProcessAreaIsMeanOfDistinctGoals ==
    Returned("calculate_process_area_attainment_enhanced") =>
        \A pa \in DOMAIN result.value :
            GoalsOfProcessArea(pa) # {} =>
                /\ IsMeanOf(result.value[pa].attainment_percentage,
                            GoalPercentages, GoalsOfProcessArea(pa))
                /\ IsBandOf(result.value[pa].band, result.value[pa].attainment_percentage)

\* C6 witness: a process area with two goals, one backed by two questions and
\* one by a single question, whose percentage differs from the percentage
\* its raw answers would give.
C6_Witness ==
    /\ Returned("calculate_process_area_attainment_enhanced")
    /\ \E pa \in DOMAIN result.value :
        LET P == {i \in DOMAIN questions : questions[i].process_area = pa}
        IN  /\ Cardinality(GoalsOfProcessArea(pa)) = 2
            /\ Cardinality(P) = 3
            /\ \A i \in P : questions[i].specific_goal # None
                             /\ questions[i].specific_practice # None
            /\ \E g, h \in GoalsOfProcessArea(pa) : GoalPercentages[g] # GoalPercentages[h]
            /\ ~IsLeafPercentage(result.value[pa].attainment_percentage, P)

(***************************************************************************)
(* Readiness (Spec).                                                       *)
(***************************************************************************)
Readiness == result.value

\* The process areas of the target level, and their percentages.
TargetAreas ==
    {questions[i].process_area :
        i \in {k \in DOMAIN questions : questions[k].level = Readiness.target_level}}

AreaPercentages ==
    LET pa == calculate_process_area_attainment_enhanced(questions, answers)
    IN  [a \in DOMAIN pa |-> pa[a].attainment_percentage]

Below50(a) == AreaPercentages[a] < Num(50)

\* The offending process area that comes first in the catalogue.
FirstOffender ==
    questions[CHOOSE i \in DOMAIN questions :
        /\ questions[i].process_area \in TargetAreas
        /\ Below50(questions[i].process_area)
        /\ \A j \in 1 .. (i - 1) :
            ~(questions[j].process_area \in TargetAreas /\ Below50(questions[j].process_area))
    ].process_area

C9_ConservativeNeverOverstates ==
    Returned("calculate_next_level_readiness") =>
        Readiness.conservative_readiness <= Readiness.target_level_readiness

CurrentLevelOfCatalogue ==
    determine_current_tmmi_level(calculate_level_compliance(questions, answers),
                                 DefaultThreshold).current_level

AreasWithQuestionAt(level) ==
    {questions[i].process_area : i \in {j \in DOMAIN questions : questions[j].level = level}}

C11_TargetProcessAreas ==
    Returned("calculate_next_level_readiness") =>
        /\ Readiness.current_level = CurrentLevelOfCatalogue
        /\ Readiness.target_level
             = (IF CurrentLevelOfCatalogue + 1 <= 5 THEN CurrentLevelOfCatalogue + 1 ELSE 5)
        /\ DOMAIN Readiness.target_process_areas
             = AreasWithQuestionAt(Readiness.target_level)

(***************************************************************************)
(* C12: get_gap_analysis returns exactly one gap record for each catalogue *)
(* question whose answer is 'No', 'Partial' or missing, and none for a     *)
(* question answered 'Yes'; the record of a question with no answer has    *)
(* current_answer 'Not Answered' and neither evidence nor comment.         *)
(***************************************************************************)
Gaps == result.value

\* The positions in the returned list of the gaps of catalogue question i.
GapsOfQuestion(i) == {k \in DOMAIN Gaps : Gaps[k].question_id = questions[i].id}

C12_BasicGapCompleteness ==
    Returned("get_gap_analysis") =>
        /\ \A i \in AnsweredWith("No") \cup AnsweredWith("Partial") \cup Unanswered :
            Cardinality(GapsOfQuestion(i)) = 1
        /\ \A i \in AnsweredWith("Yes") : GapsOfQuestion(i) = {}
        /\ \A i \in Unanswered :
            \A k \in GapsOfQuestion(i) :
                /\ Gaps[k].current_answer = "Not Answered"
                /\ Gaps[k].evidence_url = None
                /\ Gaps[k].comment = None

\* One question of each kind: answered 'No', 'Partial', 'Yes' -- and with a
\* smaller catalogue, one left unanswered.
C12_Witness ==
    /\ Returned("get_gap_analysis")
    /\ Unanswered # {}
    /\ AnsweredWith("Yes") # {}
    /\ AnsweredWith("No") \cup AnsweredWith("Partial") # {}
    /\ Len(Gaps) = 2

(***************************************************************************)
(* C13: extract_gap_analysis_enhanced emits a gap record for every         *)
(* catalogue question whose answer is 'No', 'Partial' or missing; a        *)
(* question with no answer appears with current_answer 'Not Answered' and  *)
(* the 'Complete assessment for ...' action text.                          *)
(***************************************************************************)
C13_EnhancedGapCompleteness ==
    Returned("extract_gap_analysis_enhanced") =>
        /\ \A i \in AnsweredWith("No") \cup AnsweredWith("Partial") :
            GapsOfQuestion(i) # {}
        /\ \A i \in Unanswered :
            \E k \in GapsOfQuestion(i) :
                /\ Gaps[k].current_answer = "Not Answered"
                /\ Gaps[k].action_to_close
                     = "Complete assessment for " \o questions[i].process_area
                       \o " - " \o questions[i].question

(***************************************************************************)
(* C14: extract_gap_analysis_enhanced includes a question answered 'Yes'   *)
(* as a gap exactly when the question has an owning specific practice      *)
(* whose attainment is below 85%.                                          *)
(***************************************************************************)
\* The attainment of a specific practice, from its questions and answers:
\* 100 * (yes + partial / 2) / n < 85, in integers.
QuestionsOfPractice(sp) == {j \in DOMAIN questions : questions[j].specific_practice = sp}

PracticeBelow85(sp) ==
    100 * (2 * Cardinality(QuestionsOfPractice(sp) \cap AnsweredWith("Yes"))
             + Cardinality(QuestionsOfPractice(sp) \cap AnsweredWith("Partial")))
        < 85 * 2 * Cardinality(QuestionsOfPractice(sp))

PriorityRank(g) ==
    IF g.importance = "High" THEN 0
    ELSE IF g.importance = "Medium" THEN 1
    ELSE IF g.importance = "Low" THEN 2
    ELSE 3

InBasicOrder(g, h) ==
    \/ PriorityRank(g) < PriorityRank(h)
    \/ PriorityRank(g) = PriorityRank(h) /\ g.level <= h.level

InEnhancedOrder(g, h) ==
    \/ PriorityRank(g) < PriorityRank(h)
    \/ PriorityRank(g) = PriorityRank(h) /\ g.level < h.level
    \/ PriorityRank(g) = PriorityRank(h) /\ g.level = h.level
        /\ g.sp_attainment <= h.sp_attainment

C15_GapSortOrder ==
    /\ Returned("get_gap_analysis") =>
        \A k, m \in DOMAIN Gaps :
            k < m => InBasicOrder(Gaps[k], Gaps[m])
                     /\ PriorityRank(Gaps[k]) <= PriorityRank(Gaps[m])
    /\ Returned("extract_gap_analysis_enhanced") =>
        \A k, m \in DOMAIN Gaps :
            k < m => InEnhancedOrder(Gaps[k], Gaps[m])
                     /\ PriorityRank(Gaps[k]) <= PriorityRank(Gaps[m])

\* The position of a gap's question in the catalogue.
CataloguePosition(g) == CHOOSE i \in DOMAIN questions : questions[i].id = g.question_id

\* Three gaps that the sort has moved: one pair is ordered by priority (Low
\* before an unknown priority), one by the practice attainment alone.
C15_Witness ==
    /\ Returned("extract_gap_analysis_enhanced")
    /\ Len(Gaps) = 3
    /\ \E k, m \in DOMAIN Gaps :
        /\ k < m
        /\ CataloguePosition(Gaps[k]) > CataloguePosition(Gaps[m])
        /\ Gaps[k].importance = "Low" /\ Gaps[m].importance = "Critical"
    /\ \E k, m \in DOMAIN Gaps :
        /\ k < m
        /\ CataloguePosition(Gaps[k]) > CataloguePosition(Gaps[m])
        /\ Gaps[k].importance = Gaps[m].importance
        /\ Gaps[k].level = Gaps[m].level
        /\ Gaps[k].sp_attainment < Gaps[m].sp_attainment

(***************************************************************************)
(* C16: the action text is a lookup on (answer, priority, owning-practice  *)
(* attainment): 'No' with High priority gives 'Implement ... - Critical    *)
(* for level N', 'No' with another priority 'Establish ...', 'Partial'     *)
(* with attainment < 50% 'Strengthen implementation of ...', 'Partial'     *)
(* with attainment >= 50% 'Complete implementation of ...'; the answer     *)
(* value 'Not Answered' gives 'Complete assessment for <process area> -    *)
(* <question>', and every other case 'Review and validate current          *)
(* implementation'.  The attainment of missing practice data is 0.         *)
(***************************************************************************)
ActionQuestion == questions[1]
ActionAnswer == answers[1].answer
ActionText == result.value
ActionAttainment ==
    IF result.args.sp_data = <<>> THEN 0 ELSE result.args.sp_data.attainment_percentage

ActionTable ==
    /\ (ActionAnswer = "No" /\ ActionQuestion.importance = "High") =>
        ActionText = "Implement " \o ActionQuestion.recommended_activity
                     \o " - Critical for level " \o ToString(ActionQuestion.level)
    /\ (ActionAnswer = "No" /\ ActionQuestion.importance # "High") =>
        ActionText = "Establish " \o ActionQuestion.recommended_activity
    /\ (ActionAnswer = "Partial" /\ ActionAttainment < Num(50)) =>
        ActionText = "Strengthen implementation of " \o ActionQuestion.recommended_activity
    /\ (ActionAnswer = "Partial" /\ ActionAttainment >= Num(50)) =>
        ActionText = "Complete implementation of " \o ActionQuestion.recommended_activity

\* As stated: every case but the four of the table gives the review text.
C16_Original ==
    Returned("_generate_action_recommendation") =>
        /\ ActionTable
        /\ ActionAnswer \notin {"No", "Partial"} =>
            ActionText = "Review and validate current implementation"

C16_ActionTextLookup ==
    Returned("_generate_action_recommendation") =>
        /\ ActionTable
        /\ ActionAnswer = "Not Answered" =>
            ActionText = "Complete assessment for " \o ActionQuestion.process_area
                         \o " - " \o ActionQuestion.question
        /\ ActionAnswer \notin {"No", "Partial", "Not Answered"} =>
            ActionText = "Review and validate current implementation"

\* A 'Partial' answer whose practice is at exactly 50%.
C16_Witness ==
    /\ Returned("_generate_action_recommendation")
    /\ ActionAnswer = "Partial"
    /\ ActionAttainment = Num(50)
    /\ ActionText = "Complete implementation of activity 1"

(***************************************************************************)
(* C17: calculate_evidence_coverage returns total_answers = the number of  *)
(* answers, with_evidence = the number of answers whose evidence URL is    *)
(* present and not empty after trimming, and percentage = 100 x            *)
(* with_evidence / total_answers; for an empty answer list it returns      *)
(* percentage 0, with_evidence 0 and total_answers 0.                      *)
(***************************************************************************)
WithEvidence == {i \in DOMAIN answers : answers[i].evidence_url \notin {None, "", " "}}

C17_EvidenceCoverage ==
    Returned("calculate_evidence_coverage") =>
        /\ result.value.total_answers = Len(answers)
        /\ result.value.with_evidence = Cardinality(WithEvidence)
        /\ result.value.percentage * Len(answers) = Num(100) * Cardinality(WithEvidence)
        /\ answers = <<>> => result.value.percentage = 0

\* Three answers: one URL, one empty URL and one blank one.
C17_Witness ==
    /\ Returned("calculate_evidence_coverage")
    /\ Len(answers) = 3
    /\ \E i, j \in DOMAIN answers : answers[i].evidence_url = " " /\ answers[j].evidence_url = ""
    /\ result.value.with_evidence = 1
    /\ 3 * result.value.percentage = Num(100)

(***************************************************************************)
(* C18: for each level 2..5, calculate_generic_goal_compliance reports     *)
(* attainment = 100 x (sum of the scores of the answered tagged questions) *)
(* / (number of catalogue questions of the level that carry a generic-goal *)
(* tag, answered or not), the band of that attainment, and status 'Met'    *)
(* if and only if the attainment is >= 85 (else 'Not Met').                *)
(***************************************************************************)
GenericGoals == result.value

\* The catalogue questions of a level that carry a generic-goal tag.
TaggedAt(level) ==
    {i \in DOMAIN questions :
        questions[i].level = level /\ questions[i].generic_goal # None}

\* The entries reported for a level.
EntriesOfLevel(level) == {g \in DOMAIN GenericGoals : GenericGoals[g].level = level}

C20_AnswerScoreTotal ==
    Returned("calculate_answer_score") =>
        /\ result.args.answer = "Yes" => result.value = Num(1)
        /\ result.args.answer = "Partial" => 2 * result.value = Num(1)
        /\ result.args.answer \notin {"Yes", "Partial"} => result.value = 0

\* A value that differs from 'Yes' by its case only has been scored.
C20_Witness ==
    /\ Returned("calculate_answer_score")
    /\ result.args.answer = "yes"
    /\ result.value = 0

\* C21: calculate_tmmi_band gives every percentage x exactly one band:
\* 'N' for x < 15, 'P' for 15 <= x < 50, 'L' for 50 <= x < 85 and 'F' for
\* x >= 85, each lower bound inclusive; and under N < P < L < F no smaller
\* percentage has a higher band.
BandRank(band) ==
    CASE band = "N" -> 0 [] band = "P" -> 1 [] band = "L" -> 2 [] band = "F" -> 3

C21_BandPartition ==
    Returned("calculate_tmmi_band") =>
        LET x == result.args.percentage
            band == result.value
        IN  /\ band \in {"N", "P", "L", "F"}
            /\ IsBandOf(band, x)
            /\ \A y \in Percentages :
                y <= x => BandRank(calculate_tmmi_band(y)) <= BandRank(band)

C21_Witness ==
    /\ Returned("calculate_tmmi_band")
    /\ result.args.percentage = Num(85)
    /\ result.value = "F"

\* C22: answers whose question id is not in the catalogue change no result of
\* calculate_level_compliance, calculate_process_area_compliance,
\* calculate_specific_practice_attainment, the goal and process-area roll-ups,
\* get_gap_analysis and calculate_generic_goal_compliance: each returns what
\* it returns for the answer list without those answers.
IsOrphan(a) == \A i \in DOMAIN questions : questions[i].id # a.question_id

CatalogueAnswers == SelectSeq(answers, LAMBDA a : ~IsOrphan(a))

C22_OrphanAnswersIgnored ==
    /\ Returned("calculate_level_compliance") =>
        result.value = calculate_level_compliance(questions, CatalogueAnswers)
    /\ Returned("calculate_process_area_compliance") =>
        result.value = calculate_process_area_compliance(questions, CatalogueAnswers)
    /\ Returned("calculate_specific_practice_attainment") =>
        result.value = calculate_specific_practice_attainment(questions, CatalogueAnswers)
    /\ Returned("calculate_specific_goal_attainment") =>
        result.value = calculate_specific_goal_attainment(questions, CatalogueAnswers)
    /\ Returned("calculate_process_area_attainment_enhanced") =>
        result.value = calculate_process_area_attainment_enhanced(questions, CatalogueAnswers)
    /\ Returned("get_gap_analysis") =>
        result.value = get_gap_analysis(questions, CatalogueAnswers)
    /\ Returned("calculate_generic_goal_compliance") =>
        result.value = calculate_generic_goal_compliance(questions, CatalogueAnswers)

C22_Witness ==
    /\ Returned("calculate_generic_goal_compliance")
    /\ \E k \in DOMAIN answers : IsOrphan(answers[k])
    /\ \E k \in DOMAIN answers : ~IsOrphan(answers[k])
    /\ DOMAIN result.value # {}

\* C24: generate_assessment_summary only combines: its level_compliance,
\* process_area_compliance, gaps and evidence_coverage fields are what
\* calculate_level_compliance, calculate_process_area_compliance,
\* get_gap_analysis and calculate_evidence_coverage return for the same
\* questions and answers, and current_level and level_explanation are what
\* determine_current_tmmi_level returns for that level_compliance at the
\* default threshold of 80.
Summary == result.value

C24_SummaryCombines ==
    Returned("generate_assessment_summary") =>
        /\ result.args.assessment.answers = answers
        /\ Summary.level_compliance = calculate_level_compliance(questions, answers)
        /\ Summary.process_area_compliance
             = calculate_process_area_compliance(questions, answers)
        /\ Summary.gaps = get_gap_analysis(questions, answers)
        /\ Summary.evidence_coverage = calculate_evidence_coverage(answers)
        /\ Summary.current_level
             = determine_current_tmmi_level(Summary.level_compliance, Num(80)).current_level
        /\ Summary.level_explanation
             = determine_current_tmmi_level(Summary.level_compliance, Num(80)).explanation

\* A summary whose level 2 stands at 75%: above 70, short of 80.
C24_Witness ==
    /\ Returned("generate_assessment_summary")
    /\ 2 \in DOMAIN Summary.level_compliance
    /\ Summary.level_compliance[2].compliance_percentage = Num(75)
    /\ Summary.current_level = 1
    /\ Summary.gaps # <<>>

\* C27: in the summary of generate_assessment_summary, overall_percentage
\* lies between 0 and 100 and answered_questions does not exceed
\* total_questions, whatever the answer list: orphan answers and two answers
\* of one question id included.
C27_SummaryWithinBounds ==
    Returned("generate_assessment_summary") =>
        /\ 0 <= Summary.overall_percentage
        /\ Summary.overall_percentage <= Num(100)
        /\ Summary.answered_questions <= Summary.total_questions

\* C30: in every record of calculate_level_compliance and
\* calculate_process_area_compliance, yes_count + partial_count + no_count =
\* answered_questions <= total_questions = max_score and total_score =
\* yes_count + 0.5 x partial_count; an answered question whose answer is none
\* of 'Yes', 'Partial', 'No' is counted in no_count and adds nothing to the
\* score.
GroupOf(fn, key) ==
    IF fn = "calculate_level_compliance"
    THEN {i \in DOMAIN questions : questions[i].level = key}
    ELSE {i \in DOMAIN questions : questions[i].process_area = key}

C30_ComplianceCounts ==
    (Returned("calculate_level_compliance")
        \/ Returned("calculate_process_area_compliance")) =>
        \A key \in DOMAIN result.value :
            LET r == result.value[key]
                G == GroupOf(result.fn, key)
            IN  /\ r.yes_count + r.partial_count + r.no_count = r.answered_questions
                /\ r.answered_questions <= r.total_questions
                /\ r.total_questions = r.max_score
                /\ 2 * r.total_score = Num(2 * r.yes_count + r.partial_count)
                /\ r.yes_count = Cardinality(G \cap AnsweredWith("Yes"))
                /\ r.partial_count = Cardinality(G \cap AnsweredWith("Partial"))
                /\ r.no_count
                     = Cardinality(G \ (Unanswered \cup AnsweredWith("Yes")
                                            \cup AnsweredWith("Partial")))

\* A level with a question answered 'Maybe', one answered 'Yes' and one
\* without an answer.
C30_Witness ==
    /\ Returned("calculate_level_compliance")
    /\ \E key \in DOMAIN result.value :
        /\ GroupOf(result.fn, key) \cap AnsweredWith("Maybe") # {}
        /\ GroupOf(result.fn, key) \cap Unanswered # {}
        /\ result.value[key].yes_count = 1
        /\ result.value[key].no_count = 1

\* C29: every percentage reported by the level, process-area,
\* specific-practice, specific-goal, enhanced process-area and generic-goal
\* calculations lies between 0 and 100, and every band they report is the
\* band of the attainment percentage reported next to it.
IsPercentage(pct) == 0 <= pct /\ pct <= Num(100)

C29_PercentagesAndBands ==
    /\ (Returned("calculate_level_compliance")
            \/ Returned("calculate_process_area_compliance")) =>
        \A key \in DOMAIN result.value :
            IsPercentage(result.value[key].compliance_percentage)
    /\ (Returned("calculate_specific_practice_attainment")
            \/ Returned("calculate_generic_goal_compliance")) =>
        \A key \in DOMAIN result.value :
            /\ IsPercentage(result.value[key].attainment_percentage)
            /\ IsPercentage(result.value[key].evidence_coverage)
            /\ IsBandOf(result.value[key].band, result.value[key].attainment_percentage)
    /\ (Returned("calculate_specific_goal_attainment")
            \/ Returned("calculate_process_area_attainment_enhanced")) =>
        \A key \in DOMAIN result.value :
            /\ IsPercentage(result.value[key].attainment_percentage)
            /\ IsBandOf(result.value[key].band, result.value[key].attainment_percentage)

\* A goal at 50%, band 'L', whose two questions add up to 100.
C29_Witness ==
    /\ Returned("calculate_specific_goal_attainment")
    /\ \E key \in DOMAIN result.value :
        /\ result.value[key].sp_count = 2
        /\ result.value[key].attainment_percentage = Num(50)
        /\ result.value[key].band = "L"

\* C28: a process area whose catalogue questions are all answered 'Yes' is
\* reported by calculate_process_area_attainment_enhanced at 100% with band
\* 'F', and as a target process area of calculate_next_level_readiness it is
\* not below 50%, so it does not make the status 'Not Eligible'; whether or
\* not its questions carry a specific-goal or specific-practice tag.
FullySatisfied(pa) ==
    {i \in DOMAIN questions : questions[i].process_area = pa} \subseteq AnsweredWith("Yes")

C28_FullySatisfiedAreaIsFull ==
    /\ Returned("calculate_process_area_attainment_enhanced") =>
        \A pa \in DOMAIN result.value :
            FullySatisfied(pa) =>
                /\ result.value[pa].attainment_percentage = Num(100)
                /\ result.value[pa].band = "F"
    /\ Returned("calculate_next_level_readiness") =>
        \A pa \in DOMAIN Readiness.target_process_areas :
            FullySatisfied(pa) =>
                Readiness.target_process_areas[pa].attainment_percentage >= Num(50)

\* C26: for every saved assessment, its entry in get_assessment_history
\* reports yes_count, partial_count and no_count equal to the numbers of its
\* saved answers with those values, total_questions equal to the number of
\* its saved answers and compliance_percentage = 100 x (yes_count + 0.5 x
\* partial_count) / total_questions, 0 when it has no answers; its row in
\* get_assessments_for_editing reports that compliance rounded to one decimal.
NumSaved(a, V) ==
    Cardinality({k \in DOMAIN db.assessment_answers :
        /\ db.assessment_answers[k].assessment_id = a.id
        /\ db.assessment_answers[k].answer \in V})

\* 2 x (yes + partial / 2) and the number of answers of a saved assessment.
TwiceScore(a) == 2 * NumSaved(a, {"Yes"}) + NumSaved(a, {"Partial"})
SavedCount(a) == NumSaved(a, AnswerValues \cup {"Maybe"})

IsHistoryEntryOf(e, a) ==
    /\ e.timestamp = a.timestamp
    /\ e.yes_count = NumSaved(a, {"Yes"})
    /\ e.partial_count = NumSaved(a, {"Partial"})
    /\ e.no_count = NumSaved(a, {"No"})
    /\ e.total_questions = SavedCount(a)
    /\ IF SavedCount(a) = 0 THEN e.compliance_percentage = 0
       ELSE e.compliance_percentage * 2 * SavedCount(a) = Num(100) * TwiceScore(a)

\* tenths is 100 x (yes + partial / 2) / count rounded to one decimal.
IsEditingComplianceOf(tenths, a) ==
    IF SavedCount(a) = 0 THEN tenths = 0
    ELSE LET distance == tenths * SavedCount(a) - 500 * TwiceScore(a)
         IN  -SavedCount(a) <= 2 * distance /\ 2 * distance <= SavedCount(a)

C26_HistoryReportsSavedAnswers ==
    /\ Returned("get_assessment_history") =>
        \E order \in Permutations(DOMAIN db.assessments) :
            /\ DOMAIN result.value = DOMAIN order
            /\ \A k \in DOMAIN order :
                IsHistoryEntryOf(result.value[k], db.assessments[order[k]])
    /\ Returned("get_assessments_for_editing") =>
        /\ Len(result.value) = Len(db.assessments)
        /\ \A a \in Range(db.assessments) :
            \E k \in DOMAIN result.value :
                /\ result.value[k]["ID"] = a.id
                /\ IsEditingComplianceOf(result.value[k]["Compliance %"], a)

AllZero(field) == \A key \in DOMAIN result.value : result.value[key][field] = 0

C25_DefensiveDefaults ==
    (questions = <<>> \/ answers = <<>>) =>
        /\ (Returned("calculate_level_compliance")
                \/ Returned("calculate_process_area_compliance")) =>
            AllZero("compliance_percentage")
        /\ (Returned("calculate_specific_practice_attainment")
                \/ Returned("calculate_specific_goal_attainment")
                \/ Returned("calculate_process_area_attainment_enhanced")) =>
            AllZero("attainment_percentage")
        /\ Returned("calculate_generic_goal_compliance") => DOMAIN result.value = {}
        /\ (Returned("get_gap_analysis") \/ Returned("extract_gap_analysis_enhanced")) =>
            (questions = <<>> => result.value = <<>>)
        /\ Returned("calculate_evidence_coverage") =>
            (answers = <<>> =>
                result.value = [percentage |-> 0, with_evidence |-> 0, total_answers |-> 0])
        /\ Returned("generate_assessment_summary") =>
            /\ result.value.current_level = 1
            /\ result.value.overall_percentage = 0
            /\ answers = <<>> => result.value.evidence_coverage.percentage = 0
        /\ Returned("calculate_next_level_readiness") =>
            /\ result.value.current_level = 1
            /\ result.value.target_level_readiness = 0
            /\ result.value.conservative_readiness = 0
        /\ Returned("generate_progression_dashboard_data") =>
            /\ result.value.current_level = 1
            /\ result.value.overall_compliance = 0
            /\ result.value.next_level_readiness = 0
            /\ result.value.conservative_readiness = 0

====
